---- MODULE Spec2Model ----
(***************************************************************************)
(* Reservation core of backend/app/services/service_store.py               *)
(* (class ServiceStore): slot calendar, holds, bookings and their status   *)
(* machine, blackouts, provider cancellation.                              *)
(*                                                                         *)
(* Time is counted in minutes since 00:00 UTC of the day "d1".  Every      *)
(* store method runs its SQL inside `with self._lock: with                 *)
(* self._connect() as conn:`; sqlite3's connection context manager rolls   *)
(* the open transaction back when the block raises, so a rejected call     *)
(* leaves every table as it was (the purge of expired holds included).     *)
(*                                                                         *)
(* Each operation op has an operator op_result: "ok", or the kind of       *)
(* ServiceStoreError the call raises in the current state, found by the    *)
(* checks of the code in the order of the code; the action op applies the  *)
(* writes of the call when the result is "ok".                             *)
(***************************************************************************)
EXTENDS Integers, Sequences, FiniteSets, TLC

\* ------------------------------------------------------------------ bounds
MaxHistory == 3         \* rows the booking_status_history table may reach
MaxLifecycleHistory == 4 \* the same, when only the booking lifecycle runs
MaxAdvance == 3         \* number of clock steps after construction
ClockStep == 10         \* minutes per clock step
MaxQuoteTargets == 2    \* rows the quote_request_targets table may reach
MaxCalls == 3           \* requests the concurrent callers serve in all
MaxPolledTargets == 1   \* rows of quote_request_targets under the running poller

\* --------------------------------------------------------- program constants
CutoffHours == 2        \* timedelta(hours=2)
DefaultTtlMinutes == 15 \* ttl_minutes: int = 15
DefaultMaxTargets == 3  \* create_quote_request(max_targets=3)
Reminder15Minutes == 15 \* elapsed_minutes >= 15
Reminder60Minutes == 60 \* elapsed_minutes >= 60

\* ------------------------------------------------------------------ domains
Users == {"u1", "u2", "u3"}           \* actors
Requesters == {"u2", "u3"}            \* users who ask for holds and bookings
Providers == {"p1", "p2"}               \* rows of the providers table
ProviderInputs == Providers \cup {"p0"} \* "p0": no such provider
Dates == {"d1"}                         \* the dates the reservation calls ask for
DateInputs == Dates \cup {"dx"}          \* "dx": not YYYY-MM-DD
CalendarDates == <<"d1", "d2">>         \* the days of the calendar: today, tomorrow
RangeDays == {1, 2}                     \* ensure_availability: days
slots == <<"09:00", "11:00", "14:00", "16:00", "18:00">>
DailySlots == {slots[i] : i \in 1..Len(slots)}
\* the (provider, date, time) the callers ask for: "p0" is no provider, "10:00" is
\* a valid time that is no slot
HoldInputs == {<<"p1", "d1", "09:00">>, <<"p1", "d1", "10:00">>, <<"p0", "d1", "09:00">>,
               <<"p0", "d1", "9am">>}     \* "9am": not HH:MM
BookingInputs == HoldInputs \cup {<<"p2", "d1", "09:00">>}
BlackoutInputs == {<<"p1", "d1", "09:00">>, <<"p0", "d1", "09:00">>}
CancelInputs == {"p1", "p0"}            \* the listings the actors cancel
Callers == {"c1", "c2", "c3"}           \* the threads that serve concurrent requests
Racers == {"u2", "u3", "u4"}            \* the requesters of the concurrent attempts
RaceSlot == <<"p1", "d1", "09:00">>     \* the slot they all ask for
Notes == {"", "n1"}                     \* update.note
BookingNotes == {"n0"}                  \* request.note

BOOKING_ACTIVE_STATUSES ==
    {"requested", "provider_confirmed", "in_progress", "reschedule_requested", "rescheduled"}
BOOKING_TERMINAL_STATUSES ==
    {"provider_declined", "completed", "cancelled_by_owner", "cancelled_by_provider"}
Statuses == BOOKING_ACTIVE_STATUSES \cup BOOKING_TERMINAL_STATUSES
\* BookingStatusUpdateRequest.status: every status but "requested"
UpdateStatuses == Statuses \ {"requested"}

\* provider_owners table: seeded once, never changed by the operations below
provider_owners == [p \in Providers |-> IF p = "p1" THEN "u1" ELSE "u2"]

\* the store is constructed at 06:40 of day d1
StartMinute == 6 * 60 + 40
MaxNow == StartMinute + MaxAdvance * ClockStep

VARIABLES
    now,                 \* datetime.utcnow(), in minutes
    providers,           \* providers.status by provider id
    availability_slots,  \* number of availability_slots rows per (provider, date, time)
    provider_blackout_slots, \* the blackout rows of each (provider, date, time), oldest first
    booking_holds,       \* the hold rows of each (provider, date, time), oldest first
    bookings,            \* sequence of booking rows; the booking id is the index
    booking_status_history, \* sequence of history rows
    race,                \* the requesters racing for RaceSlot: where each is, what each got
    quote_requests,      \* sequence of quote_requests rows; the request id is the index
    quote_request_targets, \* sequence of quote_request_targets rows, in insertion order
    quote_reminders,     \* the reminder descriptors returned so far, oldest first
    lock,                \* self._lock: the caller that holds it, or "free"
    threads,             \* the request each caller runs: endpoint, position, outcome
    pollers              \* the poll each caller runs: position, clock read, list returned

vars == <<now, providers, availability_slots, provider_blackout_slots,
          booking_holds, bookings, booking_status_history, race,
          quote_requests, quote_request_targets, quote_reminders, lock, threads, pollers>>

store == <<providers, availability_slots, provider_blackout_slots,
           booking_holds, bookings, booking_status_history>>

quotes == <<quote_requests, quote_request_targets, quote_reminders>>

locks == <<lock, threads, pollers>>

\* ------------------------------------------------------------------ helpers
ToSet(s) == {s[i] : i \in 1..Len(s)}

\* time.fromisoformat: "HH:MM" to minutes of the day
TimeMinute(t) ==
    CASE t = "09:00" -> 9 * 60
      [] t = "10:00" -> 10 * 60
      [] t = "11:00" -> 11 * 60
      [] t = "14:00" -> 14 * 60
      [] t = "16:00" -> 16 * 60
      [] t = "18:00" -> 18 * 60

\* date.fromisoformat: minutes from the model's epoch to 00:00 of the date
DateMinute(d) ==
    CASE d = "d1" -> 0
      [] d = "d2" -> 24 * 60

\* start_date + timedelta(days=n), within the calendar
DateIndex(d) == CHOOSE i \in 1..Len(CalendarDates) : CalendarDates[i] = d

_parse_slot_datetime(d, t) == DateMinute(d) + TimeMinute(t)

\* _parse_iso_date: "ok", or the error raised for a string that is no date
_parse_iso_date_result(d) == IF d \in ToSet(CalendarDates) THEN "ok" ELSE "Validation"

\* _parse_time_slot: "ok", or the error raised for a string that is no time
_parse_time_slot_result(t) ==
    IF t \in DailySlots \cup {"10:00"} THEN "ok" ELSE "Validation"

\* _parse_slot_datetime: the date is parsed first, then the time
_parse_slot_datetime_result(d, t) ==
    IF _parse_iso_date_result(d) # "ok" THEN "Validation" ELSE _parse_time_slot_result(t)

\* a variant of _assert_provider_exists that never raises
_assert_provider_exists_result_skipped(p) == "ok"

\* _assert_provider_exists: "ok", or the error raised after the SELECT
_assert_provider_exists_result(p) == IF p \in Providers THEN "ok" ELSE "NotFound"

\* a variant of InCutoff that also refuses the slot that starts in exactly two hours
InCutoff_inclusive(d, t, at) == _parse_slot_datetime(d, t) - at <= CutoffHours * 60

\* requested_slot - datetime.utcnow() < timedelta(hours=2)
InCutoff(d, t, at) == _parse_slot_datetime(d, t) - at < CutoffHours * 60

Key(p, d, t) == <<p, d, t>>
SlotKeys == {Key(p, d, t) : p \in Providers, d \in ToSet(CalendarDates), t \in DailySlots}

\* the rows ensure_availability(provider_id, start_date, days) looks for
InRange(k, p, start_date, days) ==
    /\ k[1] = p
    /\ DateIndex(k[2]) \in DateIndex(start_date)..(DateIndex(start_date) + days - 1)

\* a variant of ensure_availability that inserts without the SELECT
ensure_availability_unchecked(av, p, start_date, days) ==
    [k \in SlotKeys |-> IF InRange(k, p, start_date, days) THEN av[k] + 1 ELSE av[k]]

\* ensure_availability(provider_id, start_date, days): insert each absent slot
ensure_availability(av, p, start_date, days) ==
    [k \in SlotKeys |->
        IF InRange(k, p, start_date, days) /\ av[k] = 0 THEN 1 ELSE av[k]]

\* a variant of _cleanup_expired_holds that deletes nothing
_cleanup_expired_holds_nothing(hs, at) == hs

\* _cleanup_expired_holds: DELETE FROM booking_holds WHERE expires_at <= now
_cleanup_expired_holds(hs, at) ==
    [k \in SlotKeys |-> SelectSeq(hs[k], LAMBDA h : ~(h.expires_at <= at))]

BookingOn(b, p, d, t) == b.provider_id = p /\ b.booking_date = d /\ b.time_slot = t

\* a variant of _slot_is_blocked without the SELECT on bookings
_slot_is_blocked_without_bookings(bl, bs, hs, p, d, t) ==
    IF Len(bl[Key(p, d, t)]) > 0 THEN "blackout"
    ELSE IF Len(hs[Key(p, d, t)]) > 0 THEN "held"
    ELSE "none"

\* a variant of _slot_is_blocked without the SELECT on booking_holds
_slot_is_blocked_without_holds(bl, bs, hs, p, d, t) ==
    IF Len(bl[Key(p, d, t)]) > 0 THEN "blackout"
    ELSE IF \E i \in 1..Len(bs) :
                BookingOn(bs[i], p, d, t) /\ bs[i].status \in BOOKING_ACTIVE_STATUSES
         THEN "booked"
    ELSE "none"

\* a variant of _slot_is_blocked without the SELECT on provider_blackout_slots
_slot_is_blocked_without_blackout(bl, bs, hs, p, d, t) ==
    IF \E i \in 1..Len(bs) :
           BookingOn(bs[i], p, d, t) /\ bs[i].status \in BOOKING_ACTIVE_STATUSES
    THEN "booked"
    ELSE IF Len(hs[Key(p, d, t)]) > 0 THEN "held"
    ELSE "none"

\* a variant of _slot_is_blocked that counts a booking in any status
_slot_is_blocked_any_status(bl, bs, hs, p, d, t) ==
    IF Len(bl[Key(p, d, t)]) > 0 THEN "blackout"
    ELSE IF \E i \in 1..Len(bs) : BookingOn(bs[i], p, d, t) THEN "booked"
    ELSE IF Len(hs[Key(p, d, t)]) > 0 THEN "held"
    ELSE "none"

\* _slot_is_blocked: the reason, or "none" for (False, None)
_slot_is_blocked(bl, bs, hs, p, d, t) ==
    IF Len(bl[Key(p, d, t)]) > 0 THEN "blackout"
    ELSE IF \E i \in 1..Len(bs) :
                BookingOn(bs[i], p, d, t) /\ bs[i].status \in BOOKING_ACTIVE_STATUSES
         THEN "booked"
    ELSE IF Len(hs[Key(p, d, t)]) > 0 THEN "held"
    ELSE "none"

\* ------------------------------------------------------------------ initial state
StoreInit ==
    /\ now = StartMinute
    /\ providers = [p \in Providers |-> "active"]
    /\ availability_slots = [k \in SlotKeys |-> 1]
    /\ provider_blackout_slots = [k \in SlotKeys |-> <<>>]
    /\ booking_holds = [k \in SlotKeys |-> <<>>]
    /\ bookings = <<>>
    /\ booking_status_history = <<>>
    /\ quote_requests = <<>>
    /\ quote_request_targets = <<>>
    /\ quote_reminders = <<>>
    /\ lock = "free"
    /\ threads = [c \in Callers |-> [op |-> "-", at |-> 0, result |-> "-", calls |-> 0]]
    /\ pollers = [c \in Callers |-> [pc |-> "idle", now |-> 0, returned |-> <<>>]]

Init ==
    /\ StoreInit
    /\ race = [r \in Racers |-> [pc |-> "idle", hold |-> "-", book |-> "-"]]

\* ------------------------------------------------------------------ operations
\* the clock moves on
AdvanceClock ==
    /\ now + ClockStep <= MaxNow
    /\ now' = now + ClockStep
    /\ UNCHANGED <<store, race, quotes, locks>>

\* the SELECT of the slot row, in the table av
SlotExists(av, p, d, t) == Key(p, d, t) \in SlotKeys /\ av[Key(p, d, t)] > 0

\* a variant of create_booking_hold_main_result without the call of _slot_is_blocked
create_booking_hold_main_result_unblocked(av, u, p, d, t) ==
    IF ~SlotExists(av, p, d, t) THEN "Validation"
    ELSE IF InCutoff(d, t, now) THEN "Validation"
    ELSE "ok"

\* create_booking_hold, the last critical section: the checks, in the order of the code
create_booking_hold_main_result(av, u, p, d, t) ==
    LET live == _cleanup_expired_holds(booking_holds, now) IN
    IF ~SlotExists(av, p, d, t) THEN "Validation"
    ELSE IF InCutoff(d, t, now) THEN "Validation"
    ELSE IF _slot_is_blocked(provider_blackout_slots, bookings, live, p, d, t) # "none"
         THEN "Conflict"
    ELSE "ok"

\* create_booking_hold, the last critical section: its writes
create_booking_hold_main(av, u, p, d, t) ==
    LET live == _cleanup_expired_holds(booking_holds, now)
        hold == [owner_user_id |-> u, expires_at |-> now + DefaultTtlMinutes]
    IN
    /\ booking_holds' = IF create_booking_hold_main_result(av, u, p, d, t) = "ok"
                        THEN [live EXCEPT ![Key(p, d, t)] = Append(@, hold)]
                        ELSE booking_holds
    /\ UNCHANGED <<now, providers, provider_blackout_slots, bookings,
                   booking_status_history>>

\* what a create_booking_hold call returns: "ok" or the error raised
create_booking_hold_result(u, p, d, t) ==
    IF _parse_slot_datetime_result(d, t) # "ok" THEN "Validation"
    ELSE IF _assert_provider_exists_result(p) # "ok" THEN "NotFound"
    ELSE create_booking_hold_main_result(
            ensure_availability(availability_slots, p, d, 1), u, p, d, t)

\* ServiceStore.create_booking_hold(request, ttl_minutes=15)
create_booking_hold(u, p, d, t) ==
    IF _parse_slot_datetime_result(d, t) # "ok" \/ _assert_provider_exists_result(p) # "ok"
    THEN UNCHANGED <<now, store>>
    ELSE /\ availability_slots' = ensure_availability(availability_slots, p, d, 1)
         /\ create_booking_hold_main(availability_slots', u, p, d, t)

CreateHold == \E u \in Requesters, k \in HoldInputs :
    create_booking_hold(u, k[1], k[2], k[3]) /\ UNCHANGED <<race, quotes, locks>>

\* a variant of DeleteOwnHold without the owner_user_id condition
DeleteOwnHold_any_owner(hs, u, p, d, t) == [hs EXCEPT ![Key(p, d, t)] = <<>>]

\* a variant of DeleteOwnHold that deletes nothing
DeleteOwnHold_nothing(hs, u, p, d, t) == hs

\* DELETE FROM booking_holds WHERE owner_user_id = ? AND provider_id = ? AND
\* booking_date = ? AND time_slot = ?
DeleteOwnHold(hs, u, p, d, t) ==
    [hs EXCEPT ![Key(p, d, t)] = SelectSeq(@, LAMBDA h : h.owner_user_id # u)]

\* a variant of create_booking_main_result without the call of _slot_is_blocked
create_booking_main_result_unblocked(av, u, p, d, t) ==
    IF ~SlotExists(av, p, d, t) THEN "Validation"
    ELSE IF InCutoff(d, t, now) THEN "Validation"
    ELSE "ok"

\* a variant of create_booking_main_result with the blocking check before the cutoff
create_booking_main_result_blocked_first(av, u, p, d, t) ==
    LET live == _cleanup_expired_holds(booking_holds, now) IN
    IF ~SlotExists(av, p, d, t) THEN "Validation"
    ELSE IF _slot_is_blocked(provider_blackout_slots, bookings,
                             DeleteOwnHold(live, u, p, d, t), p, d, t) # "none"
         THEN "Conflict"
    ELSE IF InCutoff(d, t, now) THEN "Validation"
    ELSE "ok"

\* create_booking, the last critical section: the checks, in the order of the code
create_booking_main_result(av, u, p, d, t) ==
    LET live == _cleanup_expired_holds(booking_holds, now) IN
    IF ~SlotExists(av, p, d, t) THEN "Validation"
    ELSE IF InCutoff(d, t, now) THEN "Validation"
    ELSE IF _slot_is_blocked(provider_blackout_slots, bookings,
                             DeleteOwnHold(live, u, p, d, t), p, d, t) # "none"
         THEN "Conflict"
    ELSE "ok"

\* a variant of create_booking_main whose DELETE statements outlive the raise
create_booking_main_committed(av, u, p, d, t, note) ==
    LET live == _cleanup_expired_holds(booking_holds, now)
        booking == [owner_user_id |-> u, provider_id |-> p, booking_date |-> d,
                    time_slot |-> t, note |-> note, status |-> "requested"]
        entry == [booking_id |-> Len(bookings) + 1, actor_user_id |-> u,
                  from_status |-> "none", to_status |-> "requested",
                  note |-> "booking requested"]
        result == create_booking_main_result(av, u, p, d, t)
    IN
    /\ booking_holds' = IF result \in {"ok", "Conflict"} THEN DeleteOwnHold(live, u, p, d, t)
                        ELSE booking_holds
    /\ bookings' = IF result = "ok" THEN Append(bookings, booking) ELSE bookings
    /\ booking_status_history' =
            IF result = "ok" THEN Append(booking_status_history, entry)
            ELSE booking_status_history
    /\ UNCHANGED <<now, providers, provider_blackout_slots>>

\* create_booking, the last critical section: its writes
create_booking_main(av, u, p, d, t, note) ==
    LET live == _cleanup_expired_holds(booking_holds, now)
        booking == [owner_user_id |-> u, provider_id |-> p, booking_date |-> d,
                    time_slot |-> t, note |-> note, status |-> "requested"]
        entry == [booking_id |-> Len(bookings) + 1, actor_user_id |-> u,
                  from_status |-> "none", to_status |-> "requested",
                  note |-> "booking requested"]
        ok == create_booking_main_result(av, u, p, d, t) = "ok"
    IN
    /\ booking_holds' = IF ok THEN DeleteOwnHold(live, u, p, d, t) ELSE booking_holds
    /\ bookings' = IF ok THEN Append(bookings, booking) ELSE bookings
    /\ booking_status_history' =
            IF ok THEN Append(booking_status_history, entry) ELSE booking_status_history
    /\ UNCHANGED <<now, providers, provider_blackout_slots>>

\* what a create_booking call returns: "ok" or the error raised
create_booking_result(u, p, d, t) ==
    IF _parse_slot_datetime_result(d, t) # "ok" THEN "Validation"
    ELSE IF _assert_provider_exists_result(p) # "ok" THEN "NotFound"
    ELSE create_booking_main_result(
            ensure_availability(availability_slots, p, d, 1), u, p, d, t)

\* ServiceStore.create_booking(request)
create_booking(u, p, d, t, note) ==
    IF _parse_slot_datetime_result(d, t) # "ok" \/ _assert_provider_exists_result(p) # "ok"
    THEN UNCHANGED <<now, store>>
    ELSE /\ availability_slots' = ensure_availability(availability_slots, p, d, 1)
         /\ create_booking_main(availability_slots', u, p, d, t, note)

CreateBooking ==
    \E u \in Requesters, k \in BookingInputs, note \in BookingNotes :
        create_booking(u, k[1], k[2], k[3], note) /\ UNCHANGED <<race, quotes, locks>>

\* allowed_transitions.get(current_status, set())
allowed_transitions(s) ==
    CASE s = "requested" -> {"provider_confirmed", "provider_declined", "cancelled_by_owner"}
      [] s = "provider_confirmed" ->
            {"in_progress", "cancelled_by_owner", "cancelled_by_provider", "reschedule_requested"}
      [] s = "in_progress" -> {"completed", "cancelled_by_provider"}
      [] s = "reschedule_requested" ->
            {"rescheduled", "cancelled_by_owner", "cancelled_by_provider"}
      [] s = "rescheduled" ->
            {"provider_confirmed", "cancelled_by_owner", "cancelled_by_provider"}
      [] OTHER -> {}

ProviderStatuses ==
    {"provider_confirmed", "provider_declined", "in_progress", "completed",
     "cancelled_by_provider"}
OwnerStatuses == {"cancelled_by_owner", "reschedule_requested"}

\* a variant of ActorAllowed without the check on "rescheduled"
ActorAllowed_without_rescheduled(row, actor, next_status) ==
    LET provider_user_id == provider_owners[row.provider_id] IN
    /\ next_status \in ProviderStatuses => actor = provider_user_id
    /\ next_status \in OwnerStatuses => actor = row.owner_user_id

\* the actor checks of update_booking_status: TRUE when the actor may apply next_status
ActorAllowed(row, actor, next_status) ==
    LET provider_user_id == provider_owners[row.provider_id] IN
    /\ next_status \in ProviderStatuses => actor = provider_user_id
    /\ next_status \in OwnerStatuses => actor = row.owner_user_id
    /\ next_status = "rescheduled" => actor = provider_user_id

\* a variant of update_booking_status_result with the actor checks before the
\* check of the transition
update_booking_status_result_actor_first(bid, actor, next_status) ==
    IF bid \notin 1..Len(bookings) THEN "NotFound"
    ELSE IF bookings[bid].status \in BOOKING_TERMINAL_STATUSES THEN "Conflict"
    ELSE IF ~ActorAllowed(bookings[bid], actor, next_status) THEN "Permission"
    ELSE IF next_status \notin allowed_transitions(bookings[bid].status) THEN "Validation"
    ELSE "ok"

\* a variant of update_booking_status_result with the check of the transition
\* before the check of the terminal status
update_booking_status_result_table_first(bid, actor, next_status) ==
    IF bid \notin 1..Len(bookings) THEN "NotFound"
    ELSE IF next_status \notin allowed_transitions(bookings[bid].status) THEN "Validation"
    ELSE IF bookings[bid].status \in BOOKING_TERMINAL_STATUSES THEN "Conflict"
    ELSE IF ~ActorAllowed(bookings[bid], actor, next_status) THEN "Permission"
    ELSE "ok"

\* what an update_booking_status call returns: the checks, in the order of the code
update_booking_status_result(bid, actor, next_status) ==
    IF bid \notin 1..Len(bookings) THEN "NotFound"
    ELSE IF bookings[bid].status \in BOOKING_TERMINAL_STATUSES THEN "Conflict"
    ELSE IF next_status \notin allowed_transitions(bookings[bid].status) THEN "Validation"
    ELSE IF ~ActorAllowed(bookings[bid], actor, next_status) THEN "Permission"
    ELSE "ok"

\* a variant of update_booking_status in which a rescheduled booking moves to the
\* next day
update_booking_status_moving(bid, actor, next_status, note) ==
    IF update_booking_status_result(bid, actor, next_status) # "ok"
    THEN UNCHANGED <<now, store>>
    ELSE
    LET row == bookings[bid]
        entry == [booking_id |-> bid, actor_user_id |-> actor,
                  from_status |-> row.status, to_status |-> next_status, note |-> note]
    IN
        /\ bookings' = [bookings EXCEPT ![bid] =
                            [row EXCEPT !.status = next_status,
                                        !.note = IF note # "" THEN note ELSE row.note,
                                        !.booking_date = IF next_status = "rescheduled"
                                                         THEN "d2" ELSE row.booking_date]]
        /\ booking_status_history' = Append(booking_status_history, entry)
        /\ UNCHANGED <<now, providers, availability_slots, provider_blackout_slots,
                       booking_holds>>

\* ServiceStore.update_booking_status(booking_id, update)
update_booking_status(bid, actor, next_status, note) ==
    IF update_booking_status_result(bid, actor, next_status) # "ok"
    THEN UNCHANGED <<now, store>>
    ELSE
    LET row == bookings[bid]
        entry == [booking_id |-> bid, actor_user_id |-> actor,
                  from_status |-> row.status, to_status |-> next_status, note |-> note]
    IN
        \* UPDATE bookings SET status = ?, note = ? (update.note or row["note"])
        /\ bookings' = [bookings EXCEPT ![bid] =
                            [row EXCEPT !.status = next_status,
                                        !.note = IF note # "" THEN note ELSE row.note]]
        /\ booking_status_history' = Append(booking_status_history, entry)
        /\ UNCHANGED <<now, providers, availability_slots, provider_blackout_slots,
                       booking_holds>>

\* the note is read by an accepted call only
UpdateStatus ==
    \E bid \in 1..(Len(bookings) + 1), actor \in Users, next_status \in UpdateStatuses :
        \E note \in (IF update_booking_status_result(bid, actor, next_status) = "ok"
                      THEN Notes ELSE {""}) :
            update_booking_status(bid, actor, next_status, note) /\ UNCHANGED <<race, quotes, locks>>

\* a variant of create_provider_blackout_result without the SELECT of an existing row
create_provider_blackout_result_unchecked(p, actor, d, t) ==
    IF p \notin DOMAIN provider_owners THEN "NotFound"
    ELSE IF provider_owners[p] # actor THEN "Permission"
    ELSE "ok"

\* a variant of create_provider_blackout_result without the comparison of the actor
create_provider_blackout_result_any_actor(p, actor, d, t) ==
    IF p \notin DOMAIN provider_owners THEN "NotFound"
    ELSE IF Len(provider_blackout_slots[Key(p, d, t)]) > 0 THEN "Conflict"
    ELSE "ok"

\* a variant of create_provider_blackout_result that refuses a slot _slot_is_blocked
\* reports as booked or held
create_provider_blackout_result_unreserved(p, actor, d, t) ==
    IF p \notin DOMAIN provider_owners THEN "NotFound"
    ELSE IF provider_owners[p] # actor THEN "Permission"
    ELSE IF _slot_is_blocked(provider_blackout_slots, bookings, booking_holds, p, d, t)
                # "none"
         THEN "Conflict"
    ELSE "ok"

\* what a create_provider_blackout call returns: the checks, in the order of the code
create_provider_blackout_result(p, actor, d, t) ==
    IF p \notin DOMAIN provider_owners THEN "NotFound"
    ELSE IF provider_owners[p] # actor THEN "Permission"
    ELSE IF Len(provider_blackout_slots[Key(p, d, t)]) > 0 THEN "Conflict"
    ELSE "ok"

\* ServiceStore.create_provider_blackout(provider_id, request)
create_provider_blackout(p, actor, d, t) ==
    LET blackout == [created_by |-> actor] IN
    IF create_provider_blackout_result(p, actor, d, t) # "ok"
    THEN UNCHANGED <<now, store>>
    ELSE
        /\ provider_blackout_slots' =
                [provider_blackout_slots EXCEPT ![Key(p, d, t)] = Append(@, blackout)]
        /\ UNCHANGED <<now, providers, availability_slots, booking_holds, bookings,
                       booking_status_history>>

CreateBlackout ==
    \E k \in BlackoutInputs, actor \in Users :
        create_provider_blackout(k[1], actor, k[2], k[3]) /\ UNCHANGED <<race, quotes, locks>>

\* what a cancel_provider call returns: the checks, in the order of the code
cancel_provider_result(p, actor) ==
    IF p \notin Providers THEN "NotFound"
    ELSE IF p \notin DOMAIN provider_owners THEN "NotFound"
    ELSE IF provider_owners[p] # actor THEN "Permission"
    ELSE "ok"

\* a variant of cancel_provider whose UPDATE has no condition on status
cancel_provider_every_booking(p, actor) ==
    IF cancel_provider_result(p, actor) # "ok" THEN UNCHANGED <<now, store>>
    ELSE
        /\ providers' = [providers EXCEPT ![p] = "cancelled"]
        /\ bookings' = [i \in 1..Len(bookings) |->
                IF bookings[i].provider_id = p
                THEN [bookings[i] EXCEPT !.status = "cancelled_by_provider"]
                ELSE bookings[i]]
        /\ UNCHANGED <<now, availability_slots, provider_blackout_slots, booking_holds,
                       booking_status_history>>

\* a variant of cancel_provider whose UPDATE reaches the requested bookings only
cancel_provider_requested_only(p, actor) ==
    IF cancel_provider_result(p, actor) # "ok" THEN UNCHANGED <<now, store>>
    ELSE
        /\ providers' = [providers EXCEPT ![p] = "cancelled"]
        /\ bookings' = [i \in 1..Len(bookings) |->
                IF bookings[i].provider_id = p /\ bookings[i].status = "requested"
                THEN [bookings[i] EXCEPT !.status = "cancelled_by_provider"]
                ELSE bookings[i]]
        /\ UNCHANGED <<now, availability_slots, provider_blackout_slots, booking_holds,
                       booking_status_history>>

\* ServiceStore.cancel_provider(provider_id, actor_user_id)
cancel_provider(p, actor) ==
    IF cancel_provider_result(p, actor) # "ok" THEN UNCHANGED <<now, store>>
    ELSE
        /\ providers' = [providers EXCEPT ![p] = "cancelled"]
        \* UPDATE bookings SET status = 'cancelled_by_provider' WHERE provider_id = ?
        \*   AND status IN ('requested', 'provider_confirmed', 'in_progress', ...)
        /\ bookings' = [i \in 1..Len(bookings) |->
                IF bookings[i].provider_id = p
                   /\ bookings[i].status \in
                        {"requested", "provider_confirmed", "in_progress",
                         "reschedule_requested", "rescheduled"}
                THEN [bookings[i] EXCEPT !.status = "cancelled_by_provider"]
                ELSE bookings[i]]
        /\ UNCHANGED <<now, availability_slots, provider_blackout_slots, booking_holds,
                       booking_status_history>>

CancelProvider ==
    \E p \in CancelInputs, actor \in Users : cancel_provider(p, actor) /\ UNCHANGED <<race, quotes, locks>>

\* one row of the answer of get_available_slots
SlotAnswer(live, p, d, t) ==
    LET reason == _slot_is_blocked(provider_blackout_slots, bookings, live, p, d, t)
        cut == InCutoff(d, t, now)
    IN [time_slot |-> t,
        available |-> ~(reason # "none" \/ cut),
        reason |-> IF cut THEN "cutoff" ELSE reason]

\* get_available_slots: the list returned to the caller (for a provider that exists)
get_available_slots_result(p, d) ==
    LET live == _cleanup_expired_holds(booking_holds, now)
        av == ensure_availability(availability_slots, p, d, 1)
        \* SELECT ... FROM availability_slots WHERE provider_id = ? AND slot_date = ?
        \* ORDER BY time_slot
        rows == SelectSeq(slots, LAMBDA t : av[Key(p, d, t)] > 0)
    IN [i \in 1..Len(rows) |-> SlotAnswer(live, p, d, rows[i])]

\* get_available_slots: the error raised before the list is built, or "ok"
get_available_slots_error(p, d) ==
    IF _parse_iso_date_result(d) # "ok" THEN "Validation"
    ELSE IF _assert_provider_exists_result(p) # "ok" THEN "NotFound"
    ELSE "ok"

\* ServiceStore.get_available_slots(provider_id, slot_date)
get_available_slots(p, d) ==
    IF get_available_slots_error(p, d) # "ok" THEN UNCHANGED <<now, store>>
    ELSE
        /\ availability_slots' = ensure_availability(availability_slots, p, d, 1)
        /\ booking_holds' = _cleanup_expired_holds(booking_holds, now)
        /\ UNCHANGED <<now, providers, provider_blackout_slots, bookings,
                       booking_status_history>>

GetAvailableSlots ==
    \E p \in ProviderInputs, d \in DateInputs :
        get_available_slots(p, d) /\ UNCHANGED <<race, quotes, locks>>

\* list_calendar_events(user_id, date_from, date_to) over the whole calendar: the
\* slots of the events of type "hold" it returns
list_calendar_events_holds(user_id) ==
    LET live == _cleanup_expired_holds(booking_holds, now) IN
    {k \in SlotKeys : \E i \in 1..Len(live[k]) : live[k][i].owner_user_id = user_id}

\* ServiceStore.list_calendar_events: the purge is committed with the read
list_calendar_events(user_id) ==
    /\ booking_holds' = _cleanup_expired_holds(booking_holds, now)
    /\ UNCHANGED <<now, providers, availability_slots, provider_blackout_slots,
                   bookings, booking_status_history>>

ListCalendarEvents ==
    \E user_id \in Users : list_calendar_events(user_id) /\ UNCHANGED <<race, quotes, locks>>

\* the model stops adding bookings and status changes at `limit` history rows
HistoryRoom(limit) == Len(booking_status_history) < limit

Next ==
    \/ AdvanceClock
    \/ CreateHold
    \/ HistoryRoom(MaxHistory) /\ CreateBooking
    \/ HistoryRoom(MaxHistory) /\ UpdateStatus
    \/ CreateBlackout
    \/ CancelProvider
    \/ GetAvailableSlots

Spec == Init /\ [][Next]_vars

\* the booking lifecycle alone: bookings, status updates and listing cancellation
LifecycleNext ==
    \/ HistoryRoom(MaxLifecycleHistory) /\ CreateBooking
    \/ HistoryRoom(MaxLifecycleHistory) /\ UpdateStatus
    \/ CancelProvider

SpecLifecycle == Init /\ [][LifecycleNext]_vars

\* ------------------------------------------------------------------ concurrent attempts
\* Each racer runs create_booking_hold and then create_booking on RaceSlot, in a
\* thread of its own.  A call is three critical sections under self._lock:
\* _assert_provider_exists, ensure_availability, and the section of the checks and
\* writes; the threads interleave between sections.
RaceInit ==
    /\ StoreInit
    /\ race = [r \in Racers |-> [pc |-> "hold_assert", hold |-> "-", book |-> "-"]]

\* _assert_provider_exists(request.provider_id)
RaceAssert(r) ==
    /\ race[r].pc \in {"hold_assert", "book_assert"}
    /\ race' = [race EXCEPT ![r] =
            IF RaceSlot[1] \in Providers
            THEN [@ EXCEPT !.pc = IF @ = "hold_assert" THEN "hold_ensure" ELSE "book_ensure"]
            ELSE IF @.pc = "hold_assert"
                 THEN [@ EXCEPT !.pc = "book_assert", !.hold = "NotFound"]
                 ELSE [@ EXCEPT !.pc = "done", !.book = "NotFound"]]
    /\ UNCHANGED <<now, store, quotes, locks>>

\* ensure_availability(provider_id, start_date, days=1)
RaceEnsure(r) ==
    /\ race[r].pc \in {"hold_ensure", "book_ensure"}
    /\ availability_slots' = ensure_availability(availability_slots, RaceSlot[1], RaceSlot[2], 1)
    /\ race' = [race EXCEPT ![r].pc = IF @ = "hold_ensure" THEN "hold_main" ELSE "book_main"]
    /\ UNCHANGED <<now, providers, provider_blackout_slots, booking_holds, bookings,
                   booking_status_history, quotes, locks>>

\* the last critical section of create_booking_hold
RaceHold(r) ==
    /\ race[r].pc = "hold_main"
    /\ create_booking_hold_main(availability_slots, r, RaceSlot[1], RaceSlot[2], RaceSlot[3])
    /\ race' = [race EXCEPT ![r] = [@ EXCEPT !.pc = "book_assert",
            !.hold = create_booking_hold_main_result(
                        availability_slots, r, RaceSlot[1], RaceSlot[2], RaceSlot[3])]]
    /\ UNCHANGED <<availability_slots, quotes, locks>>

\* the last critical section of create_booking
RaceBook(r) ==
    /\ race[r].pc = "book_main"
    /\ create_booking_main(availability_slots, r, RaceSlot[1], RaceSlot[2], RaceSlot[3], "n0")
    /\ race' = [race EXCEPT ![r] = [@ EXCEPT !.pc = "done",
            !.book = create_booking_main_result(
                        availability_slots, r, RaceSlot[1], RaceSlot[2], RaceSlot[3])]]
    /\ UNCHANGED <<availability_slots, quotes, locks>>

RaceNext ==
    \/ \E r \in Racers : RaceAssert(r)
    \/ \E r \in Racers : RaceEnsure(r)
    \/ \E r \in Racers : RaceHold(r)
    \/ \E r \in Racers : RaceBook(r)
    \/ AdvanceClock
    \/ CreateBlackout

SpecRace == RaceInit /\ [][RaceNext]_vars

\* ------------------------------------------------------------------ slot calendar
\* The calendar from an empty availability_slots table: the providers are seeded,
\* their slots are not yet.  ensure_availability is one critical section under
\* self._lock, so concurrent calls run one after the other, in any order.
SlotsInit ==
    /\ now = StartMinute
    /\ providers = [p \in Providers |-> "active"]
    /\ availability_slots = [k \in SlotKeys |-> 0]
    /\ provider_blackout_slots = [k \in SlotKeys |-> <<>>]
    /\ booking_holds = [k \in SlotKeys |-> <<>>]
    /\ bookings = <<>>
    /\ booking_status_history = <<>>
    /\ quote_requests = <<>>
    /\ quote_request_targets = <<>>
    /\ quote_reminders = <<>>
    /\ lock = "free"
    /\ threads = [c \in Callers |-> [op |-> "-", at |-> 0, result |-> "-", calls |-> 0]]
    /\ pollers = [c \in Callers |-> [pc |-> "idle", now |-> 0, returned |-> <<>>]]
    /\ race = [r \in Racers |-> [pc |-> "idle", hold |-> "-", book |-> "-"]]

\* ServiceStore.ensure_availability(provider_id, start_date, days), called by itself
EnsureAvailability ==
    \E p \in Providers, start_date \in ToSet(CalendarDates), days \in RangeDays :
        /\ availability_slots' = ensure_availability(availability_slots, p, start_date, days)
        /\ UNCHANGED <<now, providers, provider_blackout_slots, booking_holds, bookings,
                       booking_status_history, race, quotes, locks>>

SlotsNext ==
    \/ EnsureAvailability
    \/ GetAvailableSlots
    \/ CreateHold
    \/ HistoryRoom(MaxHistory) /\ CreateBooking
    \/ CreateBlackout
    \/ ListCalendarEvents
    \/ AdvanceClock

SpecSlots == SlotsInit /\ [][SlotsNext]_vars

\* ------------------------------------------------------------------ quote requests
\* The provider directory the matcher reads: providers.category, providers.suburb
\* and the order of ORDER BY rating DESC, review_count DESC.
provider_category == [p \in Providers |-> "dog_walking"]
provider_suburb == [p \in Providers |-> IF p = "p1" THEN "s1" ELSE "s2"]
provider_rank == <<"p1", "p2">>

QuoteCategories == {"dog_walking", "grooming"}       \* the categories the store accepts
QuoteCategoryInputs == {"dog_walking", "grooming", "boarding"}
QuoteSuburbInputs == {"s1", "s0", ""}                \* the suburb after strip()
MaxTargetsInputs == {1, DefaultMaxTargets}
MaxTargetsDirect == {0, 1, DefaultMaxTargets}         \* max_targets of a direct call of the store
Decisions == {"accepted", "declined"}
DecisionInputs == {"accepted", "declined", "maybe"}
ResponseMessages == {"m1", "m2"}                     \* the message after strip()
QuoteIdInputs == 1 .. (MaxQuoteTargets + 1)          \* one id that names no request
NULL == 0 - 1                                        \* responded_at of an unanswered target

\* the instants of the quote scenarios: construction, and the two reminder
\* thresholds counted from it
QuoteClock == <<StartMinute, StartMinute + Reminder15Minutes, StartMinute + Reminder60Minutes>>

AdvanceQuoteClock ==
    \E k \in 1 .. (Len(QuoteClock) - 1) :
        /\ now = QuoteClock[k]
        /\ now' = QuoteClock[k + 1]
        /\ UNCHANGED <<store, race, quotes, locks>>

\* the two SELECTs of create_quote_request: active listings of the category (in
\* the suburb, or anywhere) that the requester does not own, best ranked first
MatchingProviders(user_id, category, suburb, any_suburb) ==
    SelectSeq(provider_rank,
              LAMBDA p : /\ providers[p] = "active"
                         /\ provider_category[p] = category
                         /\ any_suburb \/ provider_suburb[p] = suburb
                         /\ provider_owners[p] # user_id)

provider_rows(user_id, category, suburb) ==
    IF MatchingProviders(user_id, category, suburb, FALSE) # <<>>
    THEN MatchingProviders(user_id, category, suburb, FALSE)
    ELSE MatchingProviders(user_id, category, suburb, TRUE)

\* provider_rows[:max_targets], max_targets >= 0
selected(user_id, category, suburb, max_targets) ==
    LET rows == provider_rows(user_id, category, suburb)
    IN  SubSeq(rows, 1, IF max_targets < Len(rows) THEN max_targets ELSE Len(rows))

create_quote_request_result(user_id, category, suburb, max_targets) ==
    IF category \notin QuoteCategories THEN "Validation"
    ELSE IF suburb = "" THEN "Validation"
    ELSE IF provider_rows(user_id, category, suburb) = <<>> THEN "NotFound"
    ELSE "ok"

NewTarget(quote_request_id, p) ==
    [quote_request_id |-> quote_request_id, provider_id |-> p,
     owner_user_id |-> provider_owners[p], status |-> "pending",
     response_message |-> "", created_at |-> now, responded_at |-> NULL,
     reminder_15_sent |-> FALSE, reminder_60_sent |-> FALSE]

create_quote_request(user_id, category, suburb, max_targets) ==
    LET quote_request_id == Len(quote_requests) + 1
        sel == selected(user_id, category, suburb, max_targets)
    IN  /\ create_quote_request_result(user_id, category, suburb, max_targets) = "ok"
        /\ Len(quote_request_targets) + Len(sel) <= MaxQuoteTargets
        /\ quote_requests' = Append(quote_requests,
               [user_id |-> user_id, category |-> category, status |-> "pending"])
        /\ quote_request_targets' = quote_request_targets \o
               [i \in 1 .. Len(sel) |-> NewTarget(quote_request_id, sel[i])]
        /\ UNCHANGED <<now, store, quote_reminders>>

\* a refused call raises inside the critical section and leaves every table as it was
CreateQuoteRequest ==
    /\ \/ \E user_id \in Requesters, category \in QuoteCategoryInputs,
             suburb \in QuoteSuburbInputs, max_targets \in MaxTargetsInputs :
               create_quote_request(user_id, category, suburb, max_targets)
       \/ IF \E user_id \in Requesters, category \in QuoteCategoryInputs,
                suburb \in QuoteSuburbInputs, max_targets \in MaxTargetsInputs :
                  create_quote_request_result(user_id, category, suburb, max_targets) # "ok"
          THEN UNCHANGED <<now, store, quotes>>
          ELSE FALSE
    /\ UNCHANGED <<race, locks>>

\* the rows of quote_request_targets WHERE quote_request_id = ? AND provider_id = ?
TargetRows(targets, quote_request_id, p) ==
    {i \in 1 .. Len(targets) : /\ targets[i].quote_request_id = quote_request_id
                               /\ targets[i].provider_id = p}

\* fetchone() of that SELECT: the first row
target_row(quote_request_id, p) ==
    quote_request_targets[CHOOSE i \in TargetRows(quote_request_targets, quote_request_id, p) :
        \A j \in TargetRows(quote_request_targets, quote_request_id, p) : i <= j]

\* a variant of _refresh_quote_request_status that closes a request as soon as
\* every target is answered
_refresh_quote_request_status_closing(targets, quote_request_id) ==
    LET statuses == {targets[i].status : i \in
                        {j \in 1 .. Len(targets) : targets[j].quote_request_id = quote_request_id}}
    IN  IF statuses = {} THEN "closed"
        ELSE IF statuses \cap Decisions # {}
             THEN IF "pending" \notin statuses THEN "closed" ELSE "responded"
        ELSE "pending"

_refresh_quote_request_status(targets, quote_request_id) ==
    LET statuses == {targets[i].status : i \in
                        {j \in 1 .. Len(targets) : targets[j].quote_request_id = quote_request_id}}
    IN  IF statuses = {} THEN "closed"
        ELSE IF statuses \cap Decisions # {}
             THEN IF statuses = {"declined"} THEN "closed" ELSE "responded"
        ELSE "pending"

\* respond_quote_request without the check that the target is still pending
respond_quote_request_result_again(quote_request_id, p, actor_user_id, decision) ==
    IF decision \notin Decisions THEN "Validation"
    ELSE IF quote_request_id \notin 1 .. Len(quote_requests) THEN "NotFound"
    ELSE IF TargetRows(quote_request_targets, quote_request_id, p) = {} THEN "NotFound"
    ELSE IF target_row(quote_request_id, p).owner_user_id # actor_user_id THEN "Permission"
    ELSE "ok"

\* respond_quote_request without the check of the actor
respond_quote_request_result_any_actor(quote_request_id, p, actor_user_id, decision) ==
    IF decision \notin Decisions THEN "Validation"
    ELSE IF quote_request_id \notin 1 .. Len(quote_requests) THEN "NotFound"
    ELSE IF TargetRows(quote_request_targets, quote_request_id, p) = {} THEN "NotFound"
    ELSE IF target_row(quote_request_id, p).status \in Decisions THEN "Conflict"
    ELSE "ok"

\* respond_quote_request refusing only the decision the target already has
respond_quote_request_result_other(quote_request_id, p, actor_user_id, decision) ==
    IF decision \notin Decisions THEN "Validation"
    ELSE IF quote_request_id \notin 1 .. Len(quote_requests) THEN "NotFound"
    ELSE IF TargetRows(quote_request_targets, quote_request_id, p) = {} THEN "NotFound"
    ELSE IF target_row(quote_request_id, p).owner_user_id # actor_user_id THEN "Permission"
    ELSE IF target_row(quote_request_id, p).status = decision THEN "Conflict"
    ELSE "ok"

respond_quote_request_result(quote_request_id, p, actor_user_id, decision) ==
    IF decision \notin Decisions THEN "Validation"
    ELSE IF quote_request_id \notin 1 .. Len(quote_requests) THEN "NotFound"
    ELSE IF TargetRows(quote_request_targets, quote_request_id, p) = {} THEN "NotFound"
    ELSE IF target_row(quote_request_id, p).owner_user_id # actor_user_id THEN "Permission"
    ELSE IF target_row(quote_request_id, p).status \in Decisions THEN "Conflict"
    ELSE "ok"

respond_quote_request(quote_request_id, p, actor_user_id, decision, message) ==
    LET updated == [i \in 1 .. Len(quote_request_targets) |->
                       IF i \in TargetRows(quote_request_targets, quote_request_id, p)
                       THEN [quote_request_targets[i] EXCEPT !.status = decision,
                                                             !.response_message = message,
                                                             !.responded_at = now]
                       ELSE quote_request_targets[i]]
    IN  /\ respond_quote_request_result(quote_request_id, p, actor_user_id, decision) = "ok"
        /\ quote_request_targets' = updated
        /\ quote_requests' = [quote_requests EXCEPT ![quote_request_id].status =
                                  _refresh_quote_request_status(updated, quote_request_id)]
        /\ UNCHANGED <<now, store, quote_reminders>>

RespondQuoteRequest ==
    /\ \/ \E quote_request_id \in QuoteIdInputs, p \in Providers, actor_user_id \in Users,
             decision \in DecisionInputs, message \in ResponseMessages :
               respond_quote_request(quote_request_id, p, actor_user_id, decision, message)
       \/ IF \E quote_request_id \in QuoteIdInputs, p \in Providers,
                actor_user_id \in Users, decision \in DecisionInputs :
                  respond_quote_request_result(quote_request_id, p, actor_user_id,
                                               decision) # "ok"
          THEN UNCHANGED <<now, store, quotes>>
          ELSE FALSE
    /\ UNCHANGED <<race, locks>>

\* int(max(0, (now - created_at).total_seconds() // 60))
elapsed_minutes(row, at) ==
    IF at - row.created_at > 0 THEN at - row.created_at ELSE 0

\* a scan without the WHERE clause
Scanned_every_row(row) == TRUE

\* the rows dispatch_quote_reminders scans
Scanned(row) ==
    /\ row.status = "pending"
    /\ row.responded_at = NULL

\* the tier chosen without reading the reminder flags
reminder_tier_unflagged(row, at) ==
    IF ~Scanned(row) THEN "none"
    ELSE IF elapsed_minutes(row, at) >= Reminder60Minutes THEN "60m"
    ELSE IF elapsed_minutes(row, at) >= Reminder15Minutes THEN "15m"
    ELSE "none"

\* a variant of reminder_tier that fires the 60-minute tier only after the
\* 15-minute one
reminder_tier_in_sequence(row, at) ==
    IF ~Scanned(row) THEN "none"
    ELSE IF elapsed_minutes(row, at) >= Reminder15Minutes /\ ~row.reminder_15_sent THEN "15m"
    ELSE IF elapsed_minutes(row, at) >= Reminder60Minutes /\ ~row.reminder_60_sent THEN "60m"
    ELSE "none"

\* send_60 / send_15 and the if / elif that picks the tier
reminder_tier(row, at) ==
    IF ~Scanned(row) THEN "none"
    ELSE IF elapsed_minutes(row, at) >= Reminder60Minutes /\ ~row.reminder_60_sent THEN "60m"
    ELSE IF elapsed_minutes(row, at) >= Reminder15Minutes /\ ~row.reminder_15_sent THEN "15m"
    ELSE "none"

\* a dispatch that returns the descriptor and writes no flag
flags_after_unwritten(row, tier) == row

\* the 60-minute UPDATE setting only its own flag
flags_after_own_only(row, tier) ==
    IF tier = "60m" THEN [row EXCEPT !.reminder_60_sent = TRUE]
    ELSE IF tier = "15m" THEN [row EXCEPT !.reminder_15_sent = TRUE]
    ELSE row

\* the UPDATE of the chosen tier
flags_after(row, tier) ==
    IF tier = "60m" THEN [row EXCEPT !.reminder_60_sent = TRUE, !.reminder_15_sent = TRUE]
    ELSE IF tier = "15m" THEN [row EXCEPT !.reminder_15_sent = TRUE]
    ELSE row

\* a variant of dispatch_quote_reminders_targets whose UPDATEs are not committed
dispatch_quote_reminders_targets_uncommitted(targets, at) == targets

\* the rows in scan order with the tier each one fires, when it fires one
Fired(targets, at) ==
    SelectSeq([i \in 1 .. Len(targets) |-> i],
              LAMBDA i : reminder_tier(targets[i], at) # "none")

\* the list dispatch_quote_reminders returns: one descriptor per fired row
dispatch_quote_reminders_result(targets, at) ==
    [n \in 1 .. Len(Fired(targets, at)) |->
        LET row == targets[Fired(targets, at)[n]]
        IN  [quote_request_id |-> row.quote_request_id, provider_id |-> row.provider_id,
             owner_user_id |-> row.owner_user_id,
             elapsed_minutes |-> elapsed_minutes(row, at),
             tier |-> reminder_tier(row, at)]]

\* the table dispatch_quote_reminders leaves behind
dispatch_quote_reminders_targets(targets, at) ==
    [i \in 1 .. Len(targets) |-> flags_after(targets[i], reminder_tier(targets[i], at))]

dispatch_quote_reminders ==
    /\ quote_request_targets' = dispatch_quote_reminders_targets(quote_request_targets, now)
    /\ quote_reminders' = quote_reminders \o
                              dispatch_quote_reminders_result(quote_request_targets, now)
    /\ UNCHANGED <<now, store, quote_requests>>

\* routers/services.py _dispatch_quote_reminders: one notification per descriptor
DispatchQuoteReminders ==
    /\ dispatch_quote_reminders
    /\ UNCHANGED <<race, locks>>

QuotesNext ==
    \/ CreateQuoteRequest
    \/ RespondQuoteRequest
    \/ DispatchQuoteReminders
    \/ AdvanceQuoteClock

SpecQuotes == Init /\ [][QuotesNext]_vars

\* Concurrent polls.  dispatch_quote_reminders reads the clock before it takes
\* self._lock; the SELECT, the UPDATEs and the commit are one block under the lock.
PollRead(c) ==
    /\ pollers[c].pc = "idle"
    /\ pollers' = [pollers EXCEPT ![c] = [pc |-> "waiting", now |-> now, returned |-> <<>>]]
    /\ UNCHANGED <<now, store, race, quotes, lock, threads>>

PollDispatch(c) ==
    /\ pollers[c].pc = "waiting"
    /\ quote_request_targets' =
           dispatch_quote_reminders_targets(quote_request_targets, pollers[c].now)
    /\ quote_reminders' = quote_reminders \o
           dispatch_quote_reminders_result(quote_request_targets, pollers[c].now)
    /\ pollers' = [pollers EXCEPT ![c] =
           [pc |-> "idle", now |-> 0,
            returned |-> dispatch_quote_reminders_result(quote_request_targets,
                                                         pollers[c].now)]]
    /\ UNCHANGED <<now, store, race, quote_requests, lock, threads>>

PollNext ==
    \/ CreateQuoteRequest
    \/ AdvanceQuoteClock
    \/ \E c \in Callers : PollRead(c)
    \/ \E c \in Callers : PollDispatch(c)

SpecPoll == Init /\ [][PollNext]_vars

\* The same operations under a clock that keeps running and a poller that keeps
\* polling: requests arrive at the instants of QuoteClock, and the clock reaches
\* one more instant, an hour after the last of them.
QuoteHorizon == QuoteClock[Len(QuoteClock)] + Reminder60Minutes

AdvanceToHorizon ==
    /\ now = QuoteClock[Len(QuoteClock)]
    /\ now' = QuoteHorizon
    /\ UNCHANGED <<store, race, quotes, locks>>

QuotesFairNext ==
    \/ /\ now # QuoteHorizon
       /\ CreateQuoteRequest
       /\ Len(quote_request_targets') <= MaxPolledTargets
    \/ RespondQuoteRequest
    \/ DispatchQuoteReminders
    \/ AdvanceQuoteClock
    \/ AdvanceToHorizon

\* list_providers and list_bookings call _dispatch_quote_reminders on every request
SpecQuotesFair ==
    /\ Init
    /\ [][QuotesFairNext]_vars
    /\ WF_vars(AdvanceQuoteClock \/ AdvanceToHorizon)
    /\ WF_vars(DispatchQuoteReminders)

\* ServiceStore.create_quote_request called with the max_targets the caller picks
CreateQuoteRequestDirect ==
    /\ Len(quote_requests) < MaxQuoteTargets
    /\ \/ \E user_id \in Requesters, category \in QuoteCategoryInputs,
             suburb \in QuoteSuburbInputs, max_targets \in MaxTargetsDirect :
               create_quote_request(user_id, category, suburb, max_targets)
       \/ IF \E user_id \in Requesters, category \in QuoteCategoryInputs,
                suburb \in QuoteSuburbInputs, max_targets \in MaxTargetsDirect :
                  create_quote_request_result(user_id, category, suburb, max_targets) # "ok"
          THEN UNCHANGED <<now, store, quotes>>
          ELSE FALSE
    /\ UNCHANGED <<race, locks>>

\* the matcher and the responses by themselves, with listings that get cancelled
QuoteResponsesNext ==
    \/ CreateQuoteRequestDirect
    \/ RespondQuoteRequest
    \/ CancelProvider

SpecQuoteResponses == Init /\ [][QuoteResponsesNext]_vars

\* ------------------------------------------------------------------ the lock
\* What a request does with self._lock, endpoint by endpoint: "acquire" and
\* "release" are the entry and the exit of a `with self._lock:` block, "notify" is
\* the router's notification_store.create after the store call returned.
Endpoints == {"create_booking", "list_bookings", "create_provider_blackout"}
Errors == {"NotFound", "Validation", "Conflict", "Permission"}

\* one `with self._lock:` block; the helpers called inside take no lock
Section == <<"acquire", "release">>

\* create_booking with ensure_availability called inside its last block
Program_nested(op) ==
    CASE op = "create_booking" ->
             Section \o <<"acquire">> \o Section \o <<"release">> \o Section \o <<"notify">>
      [] op = "list_bookings" -> Section \o <<"notify">> \o Section
      [] op = "create_provider_blackout" -> Section

\* create_booking: _assert_provider_exists, ensure_availability, the block of the
\* checks and writes, then list_provider_owner_user_ids and the notifications;
\* list_bookings: the block of dispatch_quote_reminders, the notifications, the
\* block of list_bookings; create_provider_blackout: one block
Program(op) ==
    CASE op = "create_booking" -> Section \o Section \o Section \o Section \o <<"notify">>
      [] op = "list_bookings" -> Section \o <<"notify">> \o Section
      [] op = "create_provider_blackout" -> Section

\* what the caller is about to do
Event(c) == IF threads[c].at = 0 THEN "-" ELSE Program(threads[c].op)[threads[c].at]

\* the caller moves on: to the next event, or out of the endpoint
Proceed(t) ==
    IF t.at = Len(Program(t.op)) THEN [t EXCEPT !.at = 0, !.result = "ok"]
    ELSE [t EXCEPT !.at = @ + 1]

\* the requests that arrived so far
RECURSIVE Served(_)
Served(cs) ==
    IF cs = {} THEN 0
    ELSE LET c == CHOOSE x \in cs : TRUE IN threads[c].calls + Served(cs \ {c})

\* a request arrives and a thread starts to serve it
Call(c) ==
    /\ threads[c].at = 0
    /\ Served(Callers) < MaxCalls
    /\ \E op \in Endpoints :
           threads' = [threads EXCEPT ![c] =
                          [op |-> op, at |-> 1, result |-> "-", calls |-> @.calls + 1]]
    /\ UNCHANGED <<now, store, race, quotes, lock, pollers>>

\* threading.Lock.acquire(): blocks until the lock is free
Acquire(c) ==
    /\ Event(c) = "acquire"
    /\ lock = "free"
    /\ lock' = c
    /\ threads' = [threads EXCEPT ![c] = Proceed(@)]
    /\ UNCHANGED <<now, store, race, quotes, pollers>>

\* the exit of the with block, by return or by one of the four errors
Release(c) ==
    /\ Event(c) = "release"
    /\ lock' = IF lock = c THEN "free" ELSE lock
    /\ \/ threads' = [threads EXCEPT ![c] = Proceed(@)]
       \/ \E e \in Errors :
              threads' = [threads EXCEPT ![c] = [@ EXCEPT !.at = 0, !.result = e]]
    /\ UNCHANGED <<now, store, race, quotes, pollers>>

\* notification_store.create(...)
Notify(c) ==
    /\ Event(c) = "notify"
    /\ threads' = [threads EXCEPT ![c] = Proceed(@)]
    /\ UNCHANGED <<now, store, race, quotes, lock, pollers>>

Run(c) == Acquire(c) \/ Release(c) \/ Notify(c)

LockNext ==
    \/ \E c \in Callers : Call(c)
    \/ \E c \in Callers : Acquire(c)
    \/ \E c \in Callers : Release(c)
    \/ \E c \in Callers : Notify(c)

\* a thread that can take a step takes one
SpecLock == Init /\ [][LockNext]_vars /\ \A c \in Callers : WF_vars(Run(c))

\* ------------------------------------------------------------------ properties
\* the ids of the bookings of a slot that are in an active status
ActiveBookingsOn(k) ==
    {i \in 1..Len(bookings) :
        /\ BookingOn(bookings[i], k[1], k[2], k[3])
        /\ bookings[i].status \in BOOKING_ACTIVE_STATUSES}

\* the hold rows of a slot that are live at the current time
LiveHoldsOn(k) == {h \in ToSet(booking_holds[k]) : now < h.expires_at}

Blackedout(k) == Len(provider_blackout_slots[k]) > 0

\* C1: at every moment, a (provider, date, time slot) has at most one booking in
\* an active status.
C1_NoDoubleBooking == \A k \in SlotKeys : Cardinality(ActiveBookingsOn(k)) <= 1

\* a slot booked again after its first booking ended: one terminal, one active
C1_Witness ==
    \E i, j \in 1..Len(bookings) :
        /\ i < j
        /\ BookingOn(bookings[j], bookings[i].provider_id, bookings[i].booking_date,
                     bookings[i].time_slot)
        /\ bookings[i].status \in BOOKING_TERMINAL_STATUSES
        /\ bookings[j].status \in BOOKING_ACTIVE_STATUSES

\* the concurrent attempts are all over
RaceDone == \A r \in Racers : race[r].pc = "done"
RaceWinners == {r \in Racers : race[r].book = "ok"}
ExactlyOneWinner ==
    /\ Cardinality(RaceWinners) = 1
    /\ \A r \in Racers \ RaceWinners : race[r].book = "Conflict"

\* C2 as stated: when several requesters concurrently each run createHold and
\* then createBooking on the same slot, exactly one of them succeeds and every
\* other attempt fails with Conflict.
C2_ExactlyOneSucceeds == RaceDone => ExactlyOneWinner

\* C2, amended: the same, for a slot that is still two hours ahead when the last
\* attempt returns and that has not been blacked out.
C2_ExactlyOneSucceedsOnOpenSlot ==
    (/\ RaceDone
     /\ ~InCutoff(RaceSlot[2], RaceSlot[3], now)
     /\ ~Blackedout(RaceSlot))
        => ExactlyOneWinner

\* the race is over on an open slot, one requester won, and a loser was refused
\* at its hold and at its booking
C2_Witness ==
    /\ RaceDone
    /\ ~InCutoff(RaceSlot[2], RaceSlot[3], now)
    /\ ~Blackedout(RaceSlot)
    /\ Cardinality(RaceWinners) = 1
    /\ \E r \in Racers : race[r].hold = "Conflict" /\ race[r].book = "Conflict"

\* C3 as stated: while a hold on a slot is live, every createHold on the slot
\* fails with Conflict, and every createBooking on it by a requester other than
\* the holder fails with Conflict.
C3_LiveHoldBlocks ==
    \A k \in SlotKeys : \A h \in LiveHoldsOn(k) : \A u \in Users :
        /\ create_booking_hold_result(u, k[1], k[2], k[3]) = "Conflict"
        /\ u # h.owner_user_id => create_booking_result(u, k[1], k[2], k[3]) = "Conflict"

\* C3, amended: while a hold on a slot is live, every createHold on the slot
\* fails, and every createBooking on it by a requester other than the holder
\* fails: with Validation once the slot starts in less than two hours, with
\* Conflict before.
C3_LiveHoldRefuses ==
    \A k \in SlotKeys : \A h \in LiveHoldsOn(k) : \A u \in Users :
        LET refusal == IF InCutoff(k[2], k[3], now) THEN "Validation" ELSE "Conflict" IN
        /\ create_booking_hold_result(u, k[1], k[2], k[3]) = refusal
        /\ u # h.owner_user_id => create_booking_result(u, k[1], k[2], k[3]) = refusal

\* a live hold on a slot that is two hours ahead: the holder's second hold and
\* another requester's booking are refused with Conflict
C3_Witness ==
    \E k \in SlotKeys : \E h \in LiveHoldsOn(k) : \E u \in Requesters :
        /\ ~InCutoff(k[2], k[3], now)
        /\ u # h.owner_user_id
        /\ create_booking_hold_result(h.owner_user_id, k[1], k[2], k[3]) = "Conflict"
        /\ create_booking_result(u, k[1], k[2], k[3]) = "Conflict"

\* the holder of a live hold on the slot k books it
HolderBooks(u, k, note) ==
    /\ \E h \in LiveHoldsOn(k) : h.owner_user_id = u
    /\ create_booking(u, k[1], k[2], k[3], note)

\* what C4 promises of the holder's booking: a new booking in status requested,
\* and no hold left on the slot
Converted(u, k) ==
    /\ Len(bookings') = Len(bookings) + 1
    /\ bookings'[Len(bookings')].status = "requested"
    /\ bookings'[Len(bookings')].owner_user_id = u
    /\ BookingOn(bookings'[Len(bookings')], k[1], k[2], k[3])
    /\ booking_holds'[k] = <<>>

\* C4 as stated: while R's hold on a slot is live, createBooking by R on the slot
\* succeeds.
C4_HolderBookingSucceeds ==
    \A k \in SlotKeys : \A h \in LiveHoldsOn(k) :
        create_booking_result(h.owner_user_id, k[1], k[2], k[3]) = "ok"

\* the slot has not been blacked out and starts in two hours or more
OpenSlot(k) == ~Blackedout(k) /\ ~InCutoff(k[2], k[3], now)

\* C4, amended: while R's hold on a slot is live, the slot is still two hours
\* ahead and it has not been blacked out, createBooking by R on the slot
\* succeeds, creates a booking in status requested, and leaves no hold on the
\* slot.
C4_HolderBookingConverts ==
    /\ [](\A k \in SlotKeys : \A h \in LiveHoldsOn(k) :
            OpenSlot(k) => create_booking_result(h.owner_user_id, k[1], k[2], k[3]) = "ok")
    /\ [][~UNCHANGED <<booking_holds, bookings, booking_status_history>>
            => \A k \in SlotKeys : \A u \in Requesters : \A note \in BookingNotes :
                (OpenSlot(k) /\ HolderBooks(u, k, note)) => Converted(u, k)]_vars

\* a live hold on an open slot, which its holder's booking would convert
C4_Witness ==
    \E k \in SlotKeys : \E h \in LiveHoldsOn(k) :
        /\ OpenSlot(k)
        /\ HistoryRoom(MaxHistory)
        /\ create_booking_result(h.owner_user_id, k[1], k[2], k[3]) = "ok"

\* the row of the slot k in the answer of get_available_slots
AnswerFor(k) ==
    LET answer == get_available_slots_result(k[1], k[2]) IN
    CHOOSE row \in ToSet(answer) : row.time_slot = k[3]

\* C5: a slot with a live hold, and no other blocker, is reported unavailable
\* with reason "held" at every read before the hold expires; a slot whose holds
\* have all expired, and that has no other blocker, is reported available.
C5_HeldUntilExpiry ==
    \A k \in SlotKeys :
        /\ (LiveHoldsOn(k) # {} /\ ~Blackedout(k) /\ ActiveBookingsOn(k) = {})
                => (~AnswerFor(k).available /\ AnswerFor(k).reason = "held")
        /\ (LiveHoldsOn(k) = {} /\ OpenSlot(k) /\ ActiveBookingsOn(k) = {})
                => AnswerFor(k).available

\* C6: whichever operation changes the status of a booking, the change is an
\* entry of the transition table.
C6_TransitionsInTable ==
    [][\A i \in 1..Len(bookings) :
            bookings'[i].status # bookings[i].status
                => bookings'[i].status \in allowed_transitions(bookings[i].status)]_vars

\* the booking bid is not terminal and next_status is outside its row of the table
OutsideTable(bid, next_status) ==
    /\ bookings[bid].status \notin BOOKING_TERMINAL_STATUSES
    /\ next_status \notin allowed_transitions(bookings[bid].status)

\* C7: updateStatus of a non-terminal booking to a status outside the transition
\* table fails with Validation, whoever the actor is, and leaves the bookings
\* (status and note) and the history as they were: no step that changes them is
\* such a call.
C7_OutsideTableIsValidation ==
    /\ [](\A bid \in 1..Len(bookings) : \A actor \in Users :
            \A next_status \in UpdateStatuses :
                OutsideTable(bid, next_status)
                    => update_booking_status_result(bid, actor, next_status) = "Validation")
    /\ [][~UNCHANGED <<bookings, booking_status_history>>
            => \A bid \in 1..Len(bookings) : \A actor \in Users :
                \A next_status \in UpdateStatuses : \A note \in Notes :
                    ~(/\ OutsideTable(bid, next_status)
                      /\ update_booking_status(bid, actor, next_status, note))]_vars

\* a booking in progress, and an actor entitled to the status asked for, which
\* is outside the table: the call is refused with Validation
C7_Witness ==
    \E bid \in 1..Len(bookings) : \E actor \in Users : \E next_status \in UpdateStatuses :
        /\ bookings[bid].status = "in_progress"
        /\ OutsideTable(bid, next_status)
        /\ ActorAllowed(bookings[bid], actor, next_status)
        /\ update_booking_status_result(bid, actor, next_status) = "Validation"

\* C8: a booking in a terminal status keeps that status whatever operation
\* follows, and every updateStatus on it fails with Conflict.
C8_TerminalIsAbsorbing ==
    /\ [](\A bid \in 1..Len(bookings) : \A actor \in Users :
            \A next_status \in UpdateStatuses :
                bookings[bid].status \in BOOKING_TERMINAL_STATUSES
                    => update_booking_status_result(bid, actor, next_status) = "Conflict")
    /\ [][\A bid \in 1..Len(bookings) :
            bookings[bid].status \in BOOKING_TERMINAL_STATUSES
                => (/\ bid <= Len(bookings')
                    /\ bookings'[bid].status = bookings[bid].status)]_vars

\* a completed booking of the listing p1, whose owner may still cancel the listing
C8_Witness ==
    \E bid \in 1..Len(bookings) :
        /\ bookings[bid].status = "completed"
        /\ bookings[bid].provider_id = "p1"
        /\ providers["p1"] = "active"
        /\ update_booking_status_result(bid, provider_owners["p1"], "in_progress") = "Conflict"

\* the one user the spec entitles to move a booking to next_status
RequiredActor(row, next_status) ==
    IF next_status \in {"cancelled_by_owner", "reschedule_requested"}
    THEN row.owner_user_id
    ELSE provider_owners[row.provider_id]

\* C9: only the owner of the provider's listing applies provider_confirmed,
\* provider_declined, in_progress, completed, cancelled_by_provider and
\* rescheduled; only the owner of the booking applies cancelled_by_owner and
\* reschedule_requested; a transition of the table asked by anyone else fails
\* with Permission and leaves the bookings and the history as they were: no
\* step that changes them is such a call.
C9_ActorRules ==
    /\ [](/\ \A e \in ToSet(booking_status_history) :
                e.from_status # "none"
                    => e.actor_user_id = RequiredActor(bookings[e.booking_id], e.to_status)
          /\ \A bid \in 1..Len(bookings) : \A actor \in Users :
                \A next_status \in allowed_transitions(bookings[bid].status) :
                    update_booking_status_result(bid, actor, next_status) =
                        IF actor = RequiredActor(bookings[bid], next_status)
                        THEN "ok" ELSE "Permission")
    /\ [][~UNCHANGED <<bookings, booking_status_history>>
            => \A bid \in 1..Len(bookings) : \A actor \in Users :
                \A next_status \in allowed_transitions(bookings[bid].status) :
                    \A note \in Notes :
                        ~(/\ actor # RequiredActor(bookings[bid], next_status)
                          /\ update_booking_status(bid, actor, next_status, note))]_vars

\* a booking rescheduled by the owner of the listing, whose own owner is
\* refused when confirming it
C9_Witness ==
    \E e \in ToSet(booking_status_history) :
        /\ e.to_status = "rescheduled"
        /\ e.actor_user_id = provider_owners[bookings[e.booking_id].provider_id]
        /\ bookings[e.booking_id].status = "rescheduled"
        /\ update_booking_status_result(
                e.booking_id, bookings[e.booking_id].owner_user_id, "provider_confirmed")
            = "Permission"

\* the history rows of the booking bid, oldest first
HistoryOf(bid) == SelectSeq(booking_status_history, LAMBDA e : e.booking_id = bid)

\* C10: the history of a booking starts with the entry none -> requested, each
\* later entry starts from the status the entry before it ended in, and the last
\* entry ends in the current status of the booking.
C10_HistoryIsFaithful ==
    \A bid \in 1..Len(bookings) :
        LET log == HistoryOf(bid) IN
        /\ Len(log) >= 1
        /\ log[1].from_status = "none" /\ log[1].to_status = "requested"
        /\ \A i \in 2..Len(log) : log[i].from_status = log[i - 1].to_status
        /\ log[Len(log)].to_status = bookings[bid].status

\* the reason the priority order blackout, booked, held, cutoff gives for the slot k
FirstReason(k) ==
    IF Blackedout(k) THEN "blackout"
    ELSE IF ActiveBookingsOn(k) # {} THEN "booked"
    ELSE IF LiveHoldsOn(k) # {} THEN "held"
    ELSE IF InCutoff(k[2], k[3], now) THEN "cutoff"
    ELSE "none"

\* C11: get_available_slots reports, for every slot of the day, the first reason
\* that applies in the order blackout, booked, held, cutoff, and reports the slot
\* available with no reason exactly when none applies.
C11_FirstReasonReported ==
    \A k \in SlotKeys :
        /\ AnswerFor(k).reason = FirstReason(k)
        /\ AnswerFor(k).available = (FirstReason(k) = "none")

\* the slot k starts less than two hours after the time `at`
TooSoon(k, at) == _parse_slot_datetime(k[2], k[3]) - at < 2 * 60

\* the time a hold row was inserted: expires_at = created + ttl_minutes
HoldCreatedAt(h) == h.expires_at - DefaultTtlMinutes

\* nothing blocks the slot k: no blackout, no active booking, no live hold
Unblocked(k) == ~Blackedout(k) /\ ActiveBookingsOn(k) = {} /\ LiveHoldsOn(k) = {}

\* the slots the callers of create_booking_hold and create_booking ask for
RequestedKeys == {Key(i[1], i[2], i[3]) : i \in BookingInputs} \cap SlotKeys

\* C12: createHold and createBooking for a slot that starts less than two hours
\* after the current time are rejected; no hold row exists that was created less
\* than two hours before its slot, and no step inserts a hold or a booking for a
\* slot that starts in less than two hours; a request for a slot that starts in
\* two hours or more, exactly two hours included, is not refused when nothing
\* blocks the slot.
C12_LeadTimeCutoff ==
    /\ [](/\ \A k \in RequestedKeys : \A u \in Users :
               /\ TooSoon(k, now)
                   => /\ create_booking_hold_result(u, k[1], k[2], k[3]) = "Validation"
                      /\ create_booking_result(u, k[1], k[2], k[3]) = "Validation"
               /\ (~TooSoon(k, now) /\ Unblocked(k))
                   => /\ create_booking_hold_result(u, k[1], k[2], k[3]) = "ok"
                      /\ create_booking_result(u, k[1], k[2], k[3]) = "ok"
         /\ \A k \in SlotKeys :
               \A h \in ToSet(booking_holds[k]) : ~TooSoon(k, HoldCreatedAt(h)))
    /\ [][~UNCHANGED <<booking_holds, bookings>> =>
          /\ \A k \in SlotKeys :
                ToSet(booking_holds'[k]) \ ToSet(booking_holds[k]) # {} => ~TooSoon(k, now)
          /\ Len(bookings') > Len(bookings)
                => LET b == bookings'[Len(bookings')] IN
                   ~TooSoon(Key(b.provider_id, b.booking_date, b.time_slot), now)]_vars

\* a hold taken exactly two hours before its slot, whose holder may still book
C12_Witness ==
    \E k \in SlotKeys : \E h \in ToSet(booking_holds[k]) :
        /\ _parse_slot_datetime(k[2], k[3]) - HoldCreatedAt(h) = 2 * 60
        /\ now = HoldCreatedAt(h)
        /\ create_booking_result(h.owner_user_id, k[1], k[2], k[3]) = "ok"

\* C13: there is never more than one slot row per (provider, date, time slot);
\* when a call of ensure_availability returns, every date of its range has
\* exactly one row for each of the five daily slots of the provider; no step
\* deletes a slot row.
C13_SlotGenerationIdempotent ==
    /\ [](\A k \in SlotKeys : availability_slots[k] <= 1)
    /\ [][/\ \A k \in SlotKeys : availability_slots'[k] >= availability_slots[k]
          /\ \A p \in Providers : \A start_date \in ToSet(CalendarDates) :
                \A days \in RangeDays :
                    availability_slots' =
                            ensure_availability(availability_slots, p, start_date, days)
                        => \A k \in SlotKeys :
                                InRange(k, p, start_date, days)
                                    => availability_slots'[k] = 1]_vars

\* both days of p1 are materialized, one row per daily slot, and p2 has no rows yet
C13_Witness ==
    /\ DailySlots = {"09:00", "11:00", "14:00", "16:00", "18:00"}
    /\ \A d \in ToSet(CalendarDates) : \A t \in DailySlots :
            availability_slots[Key("p1", d, t)] = 1
    /\ \A d \in ToSet(CalendarDates) : \A t \in DailySlots :
            availability_slots[Key("p2", d, t)] = 0

\* C14: a (provider, date, time slot) never has more than one blackout row; on a
\* slot that has one, create_provider_blackout by the owner of the listing fails
\* with Conflict, and no step that changes the blackout rows is such a call.
C14_OneBlackoutPerSlot ==
    /\ [](\A k \in SlotKeys :
            /\ Len(provider_blackout_slots[k]) <= 1
            /\ Blackedout(k)
                => create_provider_blackout_result(
                        k[1], provider_owners[k[1]], k[2], k[3]) = "Conflict")
    /\ [][~UNCHANGED provider_blackout_slots
            => \A k \in SlotKeys :
                ~(/\ Blackedout(k)
                  /\ create_provider_blackout(k[1], provider_owners[k[1]], k[2], k[3]))]_vars

\* a blacked-out slot whose owner asks for the blackout again and is refused
C14_Witness ==
    \E k \in SlotKeys :
        /\ Len(provider_blackout_slots[k]) = 1
        /\ provider_blackout_slots[k][1].created_by = provider_owners[k[1]]
        /\ create_provider_blackout_result(k[1], provider_owners[k[1]], k[2], k[3]) = "Conflict"

C16_BlackoutIgnoresReservations ==
    /\ [](\A k \in SlotKeys :
            ~Blackedout(k)
                => create_provider_blackout_result(
                        k[1], provider_owners[k[1]], k[2], k[3]) = "ok")
    /\ [][~UNCHANGED provider_blackout_slots
            => UNCHANGED <<bookings, booking_status_history, booking_holds>>]_vars

\* a blackout and an active booking on the same slot
C16_Witness == \E k \in SlotKeys : Blackedout(k) /\ ActiveBookingsOn(k) # {}

\* the places in the log of returned descriptors that name the target and the tier
RemindersFor(row, tier) ==
    {n \in 1 .. Len(quote_reminders) :
        /\ quote_reminders[n].quote_request_id = row.quote_request_id
        /\ quote_reminders[n].provider_id = row.provider_id
        /\ quote_reminders[n].tier = tier}

\* the descriptors an invocation at the instant `at` would return for the target
ReturnedFor(row, tier, at) ==
    {n \in 1 .. Len(dispatch_quote_reminders_result(quote_request_targets, at)) :
        LET d == dispatch_quote_reminders_result(quote_request_targets, at)[n]
        IN  /\ d.quote_request_id = row.quote_request_id
            /\ d.provider_id = row.provider_id
            /\ d.tier = tier}

FlagOf(row, tier) == IF tier = "15m" THEN row.reminder_15_sent ELSE row.reminder_60_sent

\* C17: over any sequence of dispatch_quote_reminders calls, clock advances and
\* responses, every target has at most one returned descriptor of tier 15m and at
\* most one of tier 60m, and a call made at any instant returns no descriptor of
\* a tier for a target whose flag of that tier is set.
C17_TierNeverRefired ==
    \A i \in 1 .. Len(quote_request_targets), tier \in {"15m", "60m"} :
        /\ Cardinality(RemindersFor(quote_request_targets[i], tier)) <= 1
        /\ FlagOf(quote_request_targets[i], tier) =>
              \A k \in 1 .. Len(QuoteClock) :
                  ReturnedFor(quote_request_targets[i], tier, QuoteClock[k]) = {}

\* a target whose 15-minute reminder and, later, 60-minute reminder were both returned
C17_Witness ==
    \E i \in 1 .. Len(quote_request_targets) :
        /\ RemindersFor(quote_request_targets[i], "15m") # {}
        /\ RemindersFor(quote_request_targets[i], "60m") # {}
        /\ quote_request_targets[i].status = "pending"

\* the descriptors of either tier an invocation at the instant `at` returns for a row
ReturnedOf(targets, i, at) ==
    {n \in 1 .. Len(dispatch_quote_reminders_result(targets, at)) :
        LET d == dispatch_quote_reminders_result(targets, at)[n]
        IN  /\ d.quote_request_id = targets[i].quote_request_id
            /\ d.provider_id = targets[i].provider_id}

\* the target is unanswered and both thresholds have passed
Aged(row) ==
    /\ row.status = "pending"
    /\ row.responded_at = NULL
    /\ now - row.created_at >= Reminder60Minutes

\* the target has been polled at this instant: one more call returns nothing for it
Polled(i) == ReturnedOf(quote_request_targets, i, now) = {}

\* C18 as stated: once an aged, unanswered target has been polled any number of
\* times without a clock advance, each of the two tiers has been fired exactly
\* once for it.
C18_EachTierExactlyOnce ==
    \A i \in 1 .. Len(quote_request_targets) :
        Aged(quote_request_targets[i]) /\ Polled(i) =>
            /\ Cardinality(RemindersFor(quote_request_targets[i], "15m")) = 1
            /\ Cardinality(RemindersFor(quote_request_targets[i], "60m")) = 1

\* the tier that is due for an unanswered target at the instant `at`
DueTier(row, at) ==
    IF at - row.created_at >= Reminder60Minutes /\ ~row.reminder_60_sent THEN "60m"
    ELSE IF at - row.created_at >= Reminder15Minutes /\ ~row.reminder_15_sent THEN "15m"
    ELSE "none"

\* calls at one instant: the first returns at most one descriptor per target, of
\* the due tier, and a further call returns nothing and changes no flag
RapidDispatch(at) ==
    LET first == dispatch_quote_reminders_result(quote_request_targets, at)
        after == dispatch_quote_reminders_targets(quote_request_targets, at)
    IN  /\ \A i \in 1 .. Len(quote_request_targets) :
              LET row == quote_request_targets[i]
              IN  IF row.status = "pending" /\ DueTier(row, at) # "none"
                  THEN /\ Cardinality(ReturnedOf(quote_request_targets, i, at)) = 1
                       /\ \A n \in ReturnedOf(quote_request_targets, i, at) :
                              first[n].tier = DueTier(row, at)
                  ELSE ReturnedOf(quote_request_targets, i, at) = {}
        /\ dispatch_quote_reminders_result(after, at) = <<>>
        /\ dispatch_quote_reminders_targets(after, at) = after

\* C18 (amended): calls in rapid succession against an unanswered target fire one
\* reminder in all, of the tier that is due (60m once 60 minutes have passed,
\* else 15m): the first call returns it, every later call returns nothing for
\* the target and changes none of its flags.
C18_RapidDispatchFiresDueTierOnce ==
    /\ [](\A k \in 1 .. Len(QuoteClock) : RapidDispatch(QuoteClock[k]))
    /\ [][quote_reminders' # quote_reminders =>
            /\ dispatch_quote_reminders_result(quote_request_targets', now') = <<>>
            /\ dispatch_quote_reminders_targets(quote_request_targets', now')
                   = quote_request_targets'
            /\ \A i \in 1 .. Len(quote_request_targets) :
                   Len(quote_reminders') - Len(quote_reminders) >=
                       Cardinality(ReturnedOf(quote_request_targets, i, now))
                   /\ Cardinality(ReturnedOf(quote_request_targets, i, now)) <= 1]_vars

\* a target first polled after both thresholds: its 60-minute reminder was
\* returned, no 15-minute reminder was, and one more call returns nothing
C18_Witness ==
    \E i \in 1 .. Len(quote_request_targets) :
        /\ Aged(quote_request_targets[i])
        /\ Polled(i)
        /\ RemindersFor(quote_request_targets[i], "60m") # {}
        /\ RemindersFor(quote_request_targets[i], "15m") = {}

\* what dispatch_quote_reminders, called now, does with row i
SeesSixty(i) ==
    LET row == quote_request_targets[i]
        after == dispatch_quote_reminders_targets(quote_request_targets, now)[i]
        first == dispatch_quote_reminders_result(quote_request_targets, now)
    IN  /\ Cardinality(ReturnedOf(quote_request_targets, i, now)) = 1
        /\ \A n \in ReturnedOf(quote_request_targets, i, now) : first[n].tier = "60m"
        /\ after = [row EXCEPT !.reminder_60_sent = TRUE, !.reminder_15_sent = TRUE]

SeesFifteen(i) ==
    LET row == quote_request_targets[i]
        after == dispatch_quote_reminders_targets(quote_request_targets, now)[i]
        first == dispatch_quote_reminders_result(quote_request_targets, now)
    IN  /\ Cardinality(ReturnedOf(quote_request_targets, i, now)) = 1
        /\ \A n \in ReturnedOf(quote_request_targets, i, now) : first[n].tier = "15m"
        /\ after = [row EXCEPT !.reminder_15_sent = TRUE]

\* C19: a call that sees a pending target with 60 or more minutes elapsed and the
\* 60-minute flag unset returns exactly one descriptor for it, of tier 60m, and
\* sets both flags, and no 15m descriptor for a target ever follows its 60m
\* descriptor; a call that sees 15 <= elapsed < 60 with the 15-minute flag unset
\* returns one descriptor of tier 15m and sets the 15-minute flag only.
C19_SixtySuppressesFifteen ==
    \A i \in 1 .. Len(quote_request_targets) :
        LET row == quote_request_targets[i]
            elapsed == now - row.created_at
        IN  /\ (row.status = "pending" /\ elapsed >= 60 /\ ~row.reminder_60_sent)
                  => SeesSixty(i)
            /\ (row.status = "pending" /\ elapsed >= 15 /\ elapsed < 60
                                       /\ ~row.reminder_15_sent)
                  => SeesFifteen(i)
            /\ \A n \in RemindersFor(row, "60m"), m \in RemindersFor(row, "15m") : m < n
            /\ RemindersFor(row, "60m") # {} => row.reminder_15_sent /\ row.reminder_60_sent

\* one target whose first reminder was the 60-minute one, both flags set, next to
\* one whose 15-minute reminder was returned with the 60-minute flag still unset
C19_Witness ==
    /\ \E i \in 1 .. Len(quote_request_targets) :
           /\ RemindersFor(quote_request_targets[i], "60m") # {}
           /\ RemindersFor(quote_request_targets[i], "15m") = {}
           /\ quote_request_targets[i].reminder_15_sent
    /\ \E j \in 1 .. Len(quote_request_targets) :
           /\ RemindersFor(quote_request_targets[j], "15m") # {}
           /\ quote_request_targets[j].reminder_15_sent
           /\ ~quote_request_targets[j].reminder_60_sent

\* C20: in every reachable state a target has responded_at set exactly when its
\* status is not pending, and once its status has left pending no step changes
\* its status, its response message or its responded_at.
C20_ResponseIsFinal ==
    /\ [](\A i \in 1 .. Len(quote_request_targets) :
             (quote_request_targets[i].responded_at # NULL)
                 <=> (quote_request_targets[i].status # "pending"))
    /\ [][\A i \in 1 .. Len(quote_request_targets) :
             quote_request_targets[i].status # "pending" =>
                 /\ i <= Len(quote_request_targets')
                 /\ quote_request_targets'[i].status = quote_request_targets[i].status
                 /\ quote_request_targets'[i].response_message
                        = quote_request_targets[i].response_message
                 /\ quote_request_targets'[i].responded_at
                        = quote_request_targets[i].responded_at]_vars

\* a target answered at an earlier instant, with its answer still as it was given,
\* and the owner's second answer refused
C20_Witness ==
    \E i \in 1 .. Len(quote_request_targets) :
        LET row == quote_request_targets[i]
        IN  /\ row.status = "declined"
            /\ row.response_message = "m2"
            /\ row.responded_at # NULL
            /\ row.responded_at < now
            /\ respond_quote_request_result(row.quote_request_id, row.provider_id,
                                            row.owner_user_id, "accepted") = "Conflict"

\* C21: the owner's response to a target that has already been answered, with
\* the same decision or the other one, fails with Conflict, and no step changes
\* an answered target and none is a respond_quote_request on it, so that the
\* refused call writes neither the target nor its request.
C21_SecondResponseIsConflict ==
    /\ [](\A i \in 1 .. Len(quote_request_targets) : \A decision \in Decisions :
             quote_request_targets[i].status \in Decisions =>
                 respond_quote_request_result(quote_request_targets[i].quote_request_id,
                                              quote_request_targets[i].provider_id,
                                              quote_request_targets[i].owner_user_id,
                                              decision) = "Conflict")
    /\ [][\A i \in 1 .. Len(quote_request_targets) :
             quote_request_targets[i].status \in Decisions =>
                 /\ quote_request_targets'[i] = quote_request_targets[i]
                 /\ \A actor \in Users, decision \in DecisionInputs,
                       message \in ResponseMessages :
                        ~respond_quote_request(quote_request_targets[i].quote_request_id,
                                               quote_request_targets[i].provider_id,
                                               actor, decision, message)]_vars

\* an accepted target under a responded request: the owner's second answer, the
\* same or the other, is refused
C21_Witness ==
    \E i \in 1 .. Len(quote_request_targets) :
        LET row == quote_request_targets[i]
        IN  /\ row.status = "accepted"
            /\ quote_requests[row.quote_request_id].status = "responded"
            /\ \A decision \in Decisions :
                   respond_quote_request_result(row.quote_request_id, row.provider_id,
                                                row.owner_user_id, decision) = "Conflict"

\* the statuses of the targets a request has now
TargetStatuses(q) ==
    {quote_request_targets[i].status :
        i \in {j \in 1 .. Len(quote_request_targets) :
                  quote_request_targets[j].quote_request_id = q}}

\* the status the targets of a request call for
DerivedStatus(q) ==
    IF TargetStatuses(q) = {} \/ TargetStatuses(q) = {"declined"} THEN "closed"
    ELSE IF TargetStatuses(q) # {"pending"} THEN "responded"
    ELSE "pending"

\* C22: in every reachable state the stored status of each quote request is the
\* function of the statuses of its targets: closed with no targets or with all of
\* them declined, responded when one has left pending and not all are declined,
\* pending otherwise.
C22_StatusIsFunctionOfTargets ==
    \A q \in 1 .. Len(quote_requests) : quote_requests[q].status = DerivedStatus(q)

\* the same for the requests that have a target
C22_StatusOfRequestsWithTargets ==
    \A q \in 1 .. Len(quote_requests) :
        TargetStatuses(q) # {} => quote_requests[q].status = DerivedStatus(q)

\* C23: the status of a target changes only from pending to accepted or
\* declined, and only in a respond_quote_request step whose actor is the owner
\* of the target; a call by anyone else, on a pending or an answered target,
\* fails with Permission and is no step that writes.
C23_OnlyOwnerResponds ==
    /\ [](\A i \in 1 .. Len(quote_request_targets) :
             \A actor \in Users \ {quote_request_targets[i].owner_user_id} :
                 \A decision \in Decisions :
                     respond_quote_request_result(quote_request_targets[i].quote_request_id,
                                                  quote_request_targets[i].provider_id,
                                                  actor, decision) = "Permission")
    /\ [][\A i \in 1 .. Len(quote_request_targets) :
             LET row == quote_request_targets[i]
             IN  /\ quote_request_targets'[i].status # row.status =>
                        /\ row.status = "pending"
                        /\ quote_request_targets'[i].status \in Decisions
                        /\ \E message \in ResponseMessages :
                               respond_quote_request(row.quote_request_id, row.provider_id,
                                                     row.owner_user_id,
                                                     quote_request_targets'[i].status,
                                                     message)
                 /\ \A actor \in Users \ {row.owner_user_id} :
                        \A decision \in DecisionInputs, message \in ResponseMessages :
                            ~respond_quote_request(row.quote_request_id, row.provider_id,
                                                   actor, decision, message)]_vars

\* a request with one target answered by its owner and one still pending, on
\* which the owner of the other listing is refused
C23_Witness ==
    \E i, j \in 1 .. Len(quote_request_targets) :
        /\ quote_request_targets[i].quote_request_id = quote_request_targets[j].quote_request_id
        /\ quote_request_targets[i].status \in Decisions
        /\ quote_request_targets[j].status = "pending"
        /\ respond_quote_request_result(quote_request_targets[j].quote_request_id,
                                        quote_request_targets[j].provider_id,
                                        quote_request_targets[i].owner_user_id,
                                        "accepted") = "Permission"

\* the rows a step appends to quote_request_targets
NewTargets == {i \in 1 .. Len(quote_request_targets') : i > Len(quote_request_targets)}

\* some active listing of the category is not owned by the user
SomeProviderMatches(user_id, category) ==
    \E p \in Providers : /\ providers[p] = "active"
                         /\ provider_category[p] = category
                         /\ provider_owners[p] # user_id

\* C24: a successful create_quote_request adds exactly one request, in status
\* pending, and between 1 and max_targets targets, all pending with both reminder
\* flags unset, for pairwise distinct active providers of the category asked for,
\* none owned by the requester; when no provider matches even by category alone
\* the call fails with NotFound.
C24_CreateQuoteRequestCreates ==
    /\ [](\A user_id \in Requesters, category \in QuoteCategories,
            suburb \in QuoteSuburbInputs \ {""}, max_targets \in MaxTargetsDirect :
             ~SomeProviderMatches(user_id, category) =>
                 create_quote_request_result(user_id, category, suburb, max_targets)
                     = "NotFound")
    /\ [][Len(quote_requests') # Len(quote_requests) =>
            LET q == Len(quote_requests')
                request == quote_requests'[q]
            IN  /\ q = Len(quote_requests) + 1
                /\ SubSeq(quote_requests', 1, q - 1) = quote_requests
                /\ request.status = "pending"
                /\ \E user_id \in Requesters, category \in QuoteCategoryInputs,
                      suburb \in QuoteSuburbInputs, max_targets \in MaxTargetsDirect :
                       /\ create_quote_request(user_id, category, suburb, max_targets)
                       /\ Cardinality(NewTargets) >= 1
                       /\ Cardinality(NewTargets) <= max_targets
                /\ \A i \in NewTargets :
                       LET row == quote_request_targets'[i]
                       IN  /\ row.quote_request_id = q
                           /\ row.status = "pending"
                           /\ ~row.reminder_15_sent /\ ~row.reminder_60_sent
                           /\ providers[row.provider_id] = "active"
                           /\ provider_category[row.provider_id] = request.category
                           /\ provider_owners[row.provider_id] # request.user_id
                /\ \A i, j \in NewTargets :
                       i # j => quote_request_targets'[i].provider_id
                                    # quote_request_targets'[j].provider_id]_vars

\* C25: no operation suspends indefinitely on the store's lock: a caller that
\* waits for the lock eventually holds it and every request that started
\* eventually ends; no caller tries to acquire the lock while it holds it; the
\* lock is held only by a caller inside a with block, so it is released on the
\* return and on each of the four errors; and it is never held by a caller that
\* is delivering a notification.
Waiting(c) == Event(c) = "acquire"
InsideSection(c) == Event(c) = "release"
C25_NoCallerSuspendsOnLock ==
    /\ [](\A c \in Callers : Waiting(c) => lock # c)
    /\ [](\A c \in Callers : lock = c => InsideSection(c))
    /\ [](\A c \in Callers : Event(c) = "notify" => lock # c)
    /\ \A c \in Callers : Waiting(c) ~> (lock = c)
    /\ \A c \in Callers : (threads[c].at # 0) ~> (threads[c].at = 0)
\* three callers are in flight at once: one holds the lock inside a with block,
\* one waits for it and one delivers a notification
C25_Witness ==
    \E c, d, e \in Callers :
        /\ lock = c /\ InsideSection(c)
        /\ Waiting(d)
        /\ Event(e) = "notify"

\* C26: getAvailableSlots, createHold and createBooking for a provider that does
\* not exist fail with NotFound, whatever the other arguments are, and leave the
\* store unchanged.
UnknownProviders == ProviderInputs \ Providers
C26_UnknownProviderIsNotFound ==
    /\ [](\A p \in UnknownProviders :
            /\ \A d \in DateInputs : get_available_slots_error(p, d) = "NotFound"
            /\ \A u \in Requesters, k \in BookingInputs :
                   k[1] = p => /\ create_booking_hold_result(u, k[1], k[2], k[3]) = "NotFound"
                               /\ create_booking_result(u, k[1], k[2], k[3]) = "NotFound")
    /\ [][\A p \in UnknownProviders :
            /\ \A d \in DateInputs : get_available_slots(p, d) => UNCHANGED store
            /\ \A u \in Requesters, k \in BookingInputs, note \in BookingNotes :
                   k[1] = p => /\ create_booking_hold(u, k[1], k[2], k[3]) => UNCHANGED store
                               /\ create_booking(u, k[1], k[2], k[3], note) => UNCHANGED store]_vars
\* C26, amended: for a provider that does not exist the three operations fail
\* with Validation when the date or the time slot does not parse and with
\* NotFound otherwise, and in both cases leave the store unchanged.
UnknownProviderError(d, t) ==
    IF _parse_slot_datetime_result(d, t) = "ok" THEN "NotFound" ELSE "Validation"
C26_UnknownProviderIsNotFoundAfterParsing ==
    /\ [](\A p \in UnknownProviders :
            /\ \A d \in DateInputs :
                   get_available_slots_error(p, d) = UnknownProviderError(d, "09:00")
            /\ \A u \in Requesters, k \in BookingInputs :
                   k[1] = p => /\ create_booking_hold_result(u, k[1], k[2], k[3])
                                      = UnknownProviderError(k[2], k[3])
                               /\ create_booking_result(u, k[1], k[2], k[3])
                                      = UnknownProviderError(k[2], k[3]))
    /\ [][\A p \in UnknownProviders :
            /\ \A d \in DateInputs : get_available_slots(p, d) => UNCHANGED store
            /\ \A u \in Requesters, k \in BookingInputs, note \in BookingNotes :
                   k[1] = p => /\ create_booking_hold(u, k[1], k[2], k[3]) => UNCHANGED store
                               /\ create_booking(u, k[1], k[2], k[3], note) => UNCHANGED store]_vars
\* the store holds an expired hold that a call for a known provider would purge,
\* so a call that leaves the store unchanged is told apart from one that ran
C26_Witness ==
    /\ \E k \in SlotKeys : \E i \in 1..Len(booking_holds[k]) :
           booking_holds[k][i].expires_at <= now
    /\ \E k \in BookingInputs :
           /\ k[1] \in UnknownProviders
           /\ create_booking_result("u2", k[1], k[2], k[3]) = "NotFound"

\* C27: in every reachable state, every (provider, date, time slot) has at most
\* one reservation, counting its hold rows (expired ones included) and its
\* active bookings: never two holds, never a hold beside an active booking.
C27_OneReservationPerSlot ==
    \A k \in SlotKeys : Len(booking_holds[k]) + Cardinality(ActiveBookingsOn(k)) <= 1
\* a slot is held again after its booking ended, its expired hold row is still in
\* the table, and another slot carries an active booking
C27_Witness ==
    /\ \E k \in SlotKeys :
           /\ Len(booking_holds[k]) = 1
           /\ LiveHoldsOn(k) = {}
           /\ \E i \in 1..Len(bookings) :
                  /\ BookingOn(bookings[i], k[1], k[2], k[3])
                  /\ bookings[i].status \in BOOKING_TERMINAL_STATUSES
    /\ \E k \in SlotKeys : Cardinality(ActiveBookingsOn(k)) = 1

\* C28: a createBooking that is rejected with Conflict leaves the store exactly
\* as it was before the call.
C28_ConflictLeavesStoreUnchanged ==
    [][\A u \in Requesters, k \in BookingInputs, note \in BookingNotes :
          (/\ create_booking_result(u, k[1], k[2], k[3]) = "Conflict"
           /\ create_booking(u, k[1], k[2], k[3], note))
          => UNCHANGED store]_vars
\* C28, amended: a createBooking that is rejected with Conflict changes no
\* provider, blackout, hold, booking or history entry (the requester's own hold
\* and the expired holds stay, no booking is created); the only rows it may leave
\* behind are the slot rows of the requested day that were missing before.
C28_ConflictKeepsReservations ==
    [][\A u \in Requesters, k \in BookingInputs, note \in BookingNotes :
          (/\ create_booking_result(u, k[1], k[2], k[3]) = "Conflict"
           /\ create_booking(u, k[1], k[2], k[3], note))
          => /\ UNCHANGED <<providers, provider_blackout_slots, booking_holds,
                            bookings, booking_status_history>>
             /\ availability_slots' =
                    ensure_availability(availability_slots, k[1], k[2], 1)]_vars
\* the requester holds a slot, a blackout was declared on it, and the requester's
\* createBooking is refused with Conflict
C28_Witness ==
    \E u \in Requesters, k \in RequestedKeys :
        /\ \E h \in LiveHoldsOn(k) : h.owner_user_id = u
        /\ Blackedout(k)
        /\ create_booking_result(u, k[1], k[2], k[3]) = "Conflict"

\* C29: updateStatus reports the first precondition that fails, in the order
\* NotFound (no such booking), Conflict (the booking is terminal), Validation
\* (the status asked for is not in the table entry), Permission (the actor); so
\* the booking owner who asks for provider_confirmed on a booking that is
\* already provider_confirmed gets Validation.
BookingAbsent(bid) == bid \notin 1..Len(bookings)
BookingTerminal(bid) == bookings[bid].status \in BOOKING_TERMINAL_STATUSES
FirstFailure(bid, actor, next_status) ==
    CASE BookingAbsent(bid) -> "NotFound"
      [] ~BookingAbsent(bid) /\ BookingTerminal(bid) -> "Conflict"
      [] ~BookingAbsent(bid) /\ ~BookingTerminal(bid) /\ OutsideTable(bid, next_status)
            -> "Validation"
      [] OTHER -> IF ActorAllowed(bookings[bid], actor, next_status) THEN "ok"
                  ELSE "Permission"
C29_FirstFailureReported ==
    /\ \A bid \in 1..(Len(bookings) + 1) : \A actor \in Users :
          \A next_status \in UpdateStatuses :
              update_booking_status_result(bid, actor, next_status)
                  = FirstFailure(bid, actor, next_status)
    /\ \A bid \in 1..Len(bookings) :
          bookings[bid].status = "provider_confirmed"
              => update_booking_status_result(bid, bookings[bid].owner_user_id,
                                              "provider_confirmed") = "Validation"
\* a terminal booking, for which a status outside its (empty) table entry is
\* asked by an actor who may not ask for it, and a provider_confirmed booking of
\* a requester who does not own the listing
C29_Witness ==
    /\ \E bid \in 1..Len(bookings) : \E actor \in Users :
           /\ BookingTerminal(bid)
           /\ ~ActorAllowed(bookings[bid], actor, "in_progress")
           /\ update_booking_status_result(bid, actor, "in_progress") = "Conflict"
    /\ \E bid \in 1..Len(bookings) :
           /\ bookings[bid].status = "provider_confirmed"
           /\ bookings[bid].owner_user_id # provider_owners[bookings[bid].provider_id]

\* C30: createHold and createBooking check the lead-time cutoff before the
\* blocking check: a request for a slot that is inside the cutoff and blocked
\* (by a blackout, an active booking or a hold row, the requester's own
\* included) fails with Validation, not Conflict, and no hold row is deleted.
Reserved(k) ==
    Blackedout(k) \/ ActiveBookingsOn(k) # {} \/ Len(booking_holds[k]) > 0
CutoffAndReserved(k) == InCutoff(k[2], k[3], now) /\ Reserved(k)
C30_CutoffBeforeBlocking ==
    /\ [](\A u \in Requesters, k \in RequestedKeys :
            CutoffAndReserved(k)
                => /\ create_booking_hold_result(u, k[1], k[2], k[3]) = "Validation"
                   /\ create_booking_result(u, k[1], k[2], k[3]) = "Validation")
    /\ [][~UNCHANGED booking_holds
            => \A u \in Requesters, k \in RequestedKeys, note \in BookingNotes :
                   CutoffAndReserved(k)
                       => /\ ~create_booking_hold(u, k[1], k[2], k[3])
                          /\ ~create_booking(u, k[1], k[2], k[3], note)]_vars
\* inside the cutoff: a slot with a blackout and a live hold of the requester,
\* and another slot with an active booking
C30_Witness ==
    /\ \E u \in Requesters, k \in RequestedKeys :
           /\ CutoffAndReserved(k)
           /\ Blackedout(k)
           /\ \E h \in LiveHoldsOn(k) : h.owner_user_id = u
    /\ \E k \in RequestedKeys : CutoffAndReserved(k) /\ ActiveBookingsOn(k) # {}

\* C31: only active bookings block a slot: when every booking on a slot is in a
\* terminal status, getAvailableSlots does not report "booked" for it, and a
\* createHold or createBooking on it by any requester succeeds if the slot has
\* no blackout and no live hold and is outside the cutoff.
BookingsOn(k) == {i \in 1..Len(bookings) : BookingOn(bookings[i], k[1], k[2], k[3])}
AllBookingsTerminal(k) ==
    \A i \in BookingsOn(k) : bookings[i].status \in BOOKING_TERMINAL_STATUSES
C31_OnlyActiveBookingsBlock ==
    \A k \in RequestedKeys :
        AllBookingsTerminal(k)
            => /\ AnswerFor(k).reason # "booked"
               /\ (OpenSlot(k) /\ LiveHoldsOn(k) = {})
                      => \A u \in Requesters :
                            /\ create_booking_hold_result(u, k[1], k[2], k[3]) = "ok"
                            /\ create_booking_result(u, k[1], k[2], k[3]) = "ok"
\* a slot whose only booking has ended, open again to every requester
C31_Witness ==
    \E k \in RequestedKeys :
        /\ BookingsOn(k) # {}
        /\ AllBookingsTerminal(k)
        /\ OpenSlot(k) /\ LiveHoldsOn(k) = {}
        /\ AnswerFor(k).available
        /\ \A u \in Requesters : create_booking_result(u, k[1], k[2], k[3]) = "ok"

\* C32: a blackout is permanent: no step removes or alters the blackout row of a
\* slot, and while a slot has one, no createHold and no createBooking on it
\* succeeds, for any requester: no hold row and no booking is added to it.
C32_BlackoutIsPermanent ==
    /\ [](\A k \in RequestedKeys : \A u \in Requesters :
            Blackedout(k)
                => /\ create_booking_hold_result(u, k[1], k[2], k[3]) # "ok"
                   /\ create_booking_result(u, k[1], k[2], k[3]) # "ok")
    /\ [][\A k \in SlotKeys :
            Blackedout(k)
                => /\ provider_blackout_slots'[k] = provider_blackout_slots[k]
                   /\ Len(booking_holds'[k]) <= Len(booking_holds[k])
                   /\ Cardinality({i \in 1..Len(bookings') :
                                      BookingOn(bookings'[i], k[1], k[2], k[3])})
                          = Cardinality(BookingsOn(k))]_vars
\* a blacked-out slot with no hold and no booking, two hours or more ahead: the
\* blackout alone refuses every requester
C32_Witness ==
    \E k \in RequestedKeys :
        /\ Blackedout(k)
        /\ ~InCutoff(k[2], k[3], now)
        /\ Len(booking_holds[k]) = 0 /\ BookingsOn(k) = {}
        /\ now > StartMinute
        /\ \A u \in Requesters :
               /\ create_booking_hold_result(u, k[1], k[2], k[3]) = "Conflict"
               /\ create_booking_result(u, k[1], k[2], k[3]) = "Conflict"

\* C33: no stale hold is observed: a hold with expires_at <= now is not reported
\* by getAvailableSlots, is not returned by list_calendar_events, and does not
\* make a createHold or createBooking on its slot fail: when a slot has no live
\* hold, no blackout and no active booking, neither call answers Conflict.
HasLiveHoldOf(k, user_id) == \E h \in LiveHoldsOn(k) : h.owner_user_id = user_id
C33_NoStaleHoldObserved ==
    /\ \A k \in RequestedKeys :
          /\ AnswerFor(k).reason = "held" => LiveHoldsOn(k) # {}
          /\ (LiveHoldsOn(k) = {} /\ ~Blackedout(k) /\ ActiveBookingsOn(k) = {})
                => \A u \in Requesters :
                      /\ create_booking_hold_result(u, k[1], k[2], k[3]) # "Conflict"
                      /\ create_booking_result(u, k[1], k[2], k[3]) # "Conflict"
    /\ \A user_id \in Users : \A k \in list_calendar_events_holds(user_id) :
          HasLiveHoldOf(k, user_id)
\* the expired hold row of one requester is still in the table, and another
\* requester's createHold and createBooking on the slot succeed
C33_Witness ==
    \E k \in RequestedKeys : \E u \in Requesters :
        /\ Len(booking_holds[k]) > 0
        /\ LiveHoldsOn(k) = {}
        /\ \A i \in 1..Len(booking_holds[k]) : booking_holds[k][i].owner_user_id # u
        /\ create_booking_hold_result(u, k[1], k[2], k[3]) = "ok"
        /\ create_booking_result(u, k[1], k[2], k[3]) = "ok"
        /\ list_calendar_events_holds(booking_holds[k][1].owner_user_id) = {}

\* C34: a hold row leaves the table in two ways only: it is purged when
\* now >= expires_at, or the step is a successful createBooking of its own
\* requester on its slot; every other step keeps every live hold as it is.
ConsumedBy(k, h) ==
    /\ Len(bookings') = Len(bookings) + 1
    /\ LET b == bookings'[Len(bookings')] IN
          /\ BookingOn(b, k[1], k[2], k[3])
          /\ b.owner_user_id = h.owner_user_id
          /\ b.status = "requested"
C34_HoldsLeaveByExpiryOrBooking ==
    [][~UNCHANGED booking_holds
          => \A k \in SlotKeys : \A h \in LiveHoldsOn(k) :
                h \in ToSet(booking_holds'[k]) \/ ConsumedBy(k, h)]_vars
\* a live hold that outlived a blackout declared on its slot and a status update
\* of a booking on another slot
C34_Witness ==
    \E k \in SlotKeys :
        /\ LiveHoldsOn(k) # {}
        /\ Blackedout(k)
        /\ \E i \in 1..Len(bookings) : bookings[i].status = "provider_confirmed"

\* C35: no step changes the owner, provider, date or time slot of a booking; and
\* a step that appends a history entry without creating a booking (an
\* updateStatus) changes the status and the note of the booking the entry names
\* and nothing else: the other bookings, the holds, the blackouts, the slots and
\* the providers stay as they were.
SameSlotAndOwner(a, b) ==
    /\ a.owner_user_id = b.owner_user_id
    /\ a.provider_id = b.provider_id
    /\ a.booking_date = b.booking_date
    /\ a.time_slot = b.time_slot
StatusUpdated ==
    /\ Len(booking_status_history') = Len(booking_status_history) + 1
    /\ Len(bookings') = Len(bookings)
C35_UpdateStatusChangesStatusAndNote ==
    [][~UNCHANGED <<bookings, booking_status_history>>
          => /\ \A i \in 1..Len(bookings) :
                    /\ i <= Len(bookings')
                    /\ SameSlotAndOwner(bookings'[i], bookings[i])
             /\ StatusUpdated
                    => LET entry == booking_status_history'[Len(booking_status_history')] IN
                       /\ SubSeq(booking_status_history', 1, Len(booking_status_history))
                              = booking_status_history
                       /\ entry.booking_id \in 1..Len(bookings)
                       /\ entry.from_status = bookings[entry.booking_id].status
                       /\ entry.to_status = bookings'[entry.booking_id].status
                       /\ \A i \in 1..Len(bookings) :
                              i # entry.booking_id => bookings'[i] = bookings[i]
                       /\ UNCHANGED <<providers, availability_slots,
                                      provider_blackout_slots, booking_holds>>]_vars
\* a booking that went through reschedule_requested and rescheduled, with a note
\* replaced on the way, on the slot it was created for
C35_Witness ==
    \E i \in 1..Len(bookings) :
        /\ bookings[i].status = "rescheduled"
        /\ bookings[i].note \notin BookingNotes
        /\ BookingOn(bookings[i], "p1", "d1", "09:00")
        /\ ActiveBookingsOn(Key("p1", "d1", "09:00")) = {i}

\* C36: once a target has been answered, dispatch_quote_reminders called at any
\* instant returns no descriptor for it and leaves its row as it is, and no step
\* adds a descriptor that names it or changes one of its reminder flags.
Answered(row) == row.status # "pending"
C36_NoReminderAfterResponse ==
    /\ [](\A i \in 1 .. Len(quote_request_targets) :
            Answered(quote_request_targets[i])
                => \A n \in 1 .. Len(QuoteClock) :
                      /\ ReturnedOf(quote_request_targets, i, QuoteClock[n]) = {}
                      /\ dispatch_quote_reminders_targets(quote_request_targets,
                                                          QuoteClock[n])[i]
                             = quote_request_targets[i])
    /\ [][~UNCHANGED <<quote_request_targets, quote_reminders>>
            => \A i \in 1 .. Len(quote_request_targets) :
                  Answered(quote_request_targets[i])
                      => /\ quote_request_targets'[i].reminder_15_sent
                                = quote_request_targets[i].reminder_15_sent
                         /\ quote_request_targets'[i].reminder_60_sent
                                = quote_request_targets[i].reminder_60_sent
                         /\ \A n \in (Len(quote_reminders) + 1) .. Len(quote_reminders') :
                                ~(/\ quote_reminders'[n].quote_request_id
                                         = quote_request_targets[i].quote_request_id
                                  /\ quote_reminders'[n].provider_id
                                         = quote_request_targets[i].provider_id)]_vars
\* a target answered before its first reminder, an hour old with both flags
\* unset, beside a pending target of the same age whose 60-minute reminder fired
C36_Witness ==
    \E i, j \in 1 .. Len(quote_request_targets) :
        LET row == quote_request_targets[i]
            other == quote_request_targets[j]
        IN  /\ Answered(row)
            /\ ~row.reminder_15_sent /\ ~row.reminder_60_sent
            /\ now - row.created_at >= Reminder60Minutes
            /\ other.status = "pending" /\ other.reminder_60_sent
            /\ RemindersFor(other, "60m") # {}
            /\ RemindersFor(row, "60m") = {} /\ RemindersFor(row, "15m") = {}

\* C37: a dispatch_quote_reminders call made when a pending target is 60 minutes
\* old or more and its 60-minute flag is unset returns the 60m descriptor for it
\* and sets both flags, whatever was polled before; and when the clock keeps
\* running and the poll keeps being called, every target is eventually answered
\* or has had its 60-minute reminder returned and both flags set.
SixtyDue(row) ==
    /\ row.status = "pending"
    /\ now - row.created_at >= Reminder60Minutes
    /\ ~row.reminder_60_sent
CaughtUp(i) ==
    /\ i <= Len(quote_request_targets)
    /\ \/ Answered(quote_request_targets[i])
       \/ /\ quote_request_targets[i].reminder_60_sent
          /\ quote_request_targets[i].reminder_15_sent
          /\ RemindersFor(quote_request_targets[i], "60m") # {}
C37_ReminderCatchUp ==
    /\ [](\A i \in 1 .. Len(quote_request_targets) :
            SixtyDue(quote_request_targets[i])
                => /\ \E n \in ReturnedOf(quote_request_targets, i, now) :
                          dispatch_quote_reminders_result(quote_request_targets, now)[n].tier
                              = "60m"
                   /\ dispatch_quote_reminders_targets(quote_request_targets, now)[i]
                          .reminder_60_sent)
    /\ \A i \in 1 .. MaxPolledTargets : (i <= Len(quote_request_targets)) ~> CaughtUp(i)
\* a pending target first polled when it was already an hour old: no 15m
\* descriptor was ever returned for it, the 60m one was
C37_Witness ==
    \E i \in 1 .. Len(quote_request_targets) :
        LET row == quote_request_targets[i]
        IN  /\ row.status = "pending"
            /\ CaughtUp(i)
            /\ RemindersFor(row, "15m") = {}

\* C38: concurrent polls do not duplicate a reminder: over any interleaving of
\* callers that read the clock and then run dispatch_quote_reminders, a target
\* has at most one returned descriptor of each tier, and no two callers hold a
\* descriptor of the same tier for the same target in the lists they returned.
Names(d, row, tier) ==
    /\ d.quote_request_id = row.quote_request_id
    /\ d.provider_id = row.provider_id
    /\ d.tier = tier
ReturnedTo(c, row, tier) ==
    \E n \in 1 .. Len(pollers[c].returned) : Names(pollers[c].returned[n], row, tier)
C38_ConcurrentPollsFireOnce ==
    \A i \in 1 .. Len(quote_request_targets), tier \in {"15m", "60m"} :
        LET row == quote_request_targets[i]
        IN  /\ Cardinality({n \in 1 .. Len(quote_reminders) :
                               Names(quote_reminders[n], row, tier)}) <= 1
            /\ Cardinality({c \in Callers : ReturnedTo(c, row, tier)}) <= 1
\* two callers read the clock when the same tier was due for a target; one of
\* them returned the descriptor, the other ran after it and returned nothing,
\* and a third caller waits with a clock read earlier
C38_Witness ==
    \E i \in 1 .. Len(quote_request_targets) : \E c, d, e \in Callers :
        LET row == quote_request_targets[i]
        IN  /\ c # d /\ d # e /\ c # e
            /\ ReturnedTo(c, row, "60m")
            /\ pollers[d].pc = "idle" /\ pollers[d].returned = <<>>
            /\ pollers[e].pc = "waiting" /\ pollers[e].now < now
            /\ quote_reminders # <<>>

\* C39: the status of a quote request only moves forward along pending,
\* responded, closed: no step moves it back, a closed request stays closed and
\* no response on one of its targets succeeds, and a request with an accepted
\* target is responded in every state.
StatusRank(status) ==
    CASE status = "pending" -> 0
      [] status = "responded" -> 1
      [] status = "closed" -> 2
TargetsOf(quote_request_id) ==
    {i \in 1 .. Len(quote_request_targets) :
        quote_request_targets[i].quote_request_id = quote_request_id}
C39_RequestStatusMovesForward ==
    /\ [](\A q \in 1 .. Len(quote_requests) :
            /\ (\E i \in TargetsOf(q) : quote_request_targets[i].status = "accepted")
                   => quote_requests[q].status = "responded"
            /\ quote_requests[q].status = "closed"
                   => \A i \in TargetsOf(q), actor_user_id \in Users, decision \in Decisions :
                         respond_quote_request_result(q,
                             quote_request_targets[i].provider_id, actor_user_id,
                             decision) # "ok")
    /\ [][\A q \in 1 .. Len(quote_requests) :
            /\ q <= Len(quote_requests')
            /\ StatusRank(quote_requests'[q].status) >= StatusRank(quote_requests[q].status)]_vars
\* a request closed by the refusal of its only target beside a request that is
\* responded with one target accepted
C39_Witness ==
    \E q, r \in 1 .. Len(quote_requests) :
        /\ quote_requests[q].status = "closed"
        /\ TargetsOf(q) # {}
        /\ quote_requests[r].status = "responded"
        /\ \E i \in TargetsOf(r) : quote_request_targets[i].status = "accepted"

\* C40: cancel_provider by the owner of the listing moves every booking of that
\* listing that is in an active status to cancelled_by_provider in one step and
\* leaves its terminal bookings and the bookings of every other listing as they
\* were; in the state it produces no slot of the listing is blocked by a booking;
\* a call by any other user is refused with Permission, and a refused call
\* writes nothing.
\* A step of cancel_provider that writes: it marks a listing cancelled, or changes
\* bookings without a history entry (create_booking and update_booking_status
\* append one).
CancelProviderWrites ==
    /\ booking_status_history' = booking_status_history
    /\ providers' # providers \/ bookings' # bookings
CancelledListing(p) ==
    /\ providers'[p] = "cancelled"
    /\ \A q \in Providers \ {p} : providers'[q] = providers[q]
    /\ Len(bookings') = Len(bookings)
    /\ \A i \in 1..Len(bookings) :
          bookings'[i] =
              IF bookings[i].provider_id = p /\ bookings[i].status \in BOOKING_ACTIVE_STATUSES
              THEN [bookings[i] EXCEPT !.status = "cancelled_by_provider"]
              ELSE bookings[i]
    /\ \A k \in SlotKeys :
          k[1] = p => _slot_is_blocked(provider_blackout_slots', bookings', booking_holds',
                                       k[1], k[2], k[3]) # "booked"
C40_CancelProviderCancelsActiveBookings ==
    /\ [](\A p \in Providers, actor \in Users :
            cancel_provider_result(p, actor) =
                IF actor = provider_owners[p] THEN "ok" ELSE "Permission")
    /\ [][CancelProviderWrites => \E p \in Providers : CancelledListing(p)]_vars
\* after the owner cancelled the listing p1: a booking of p1 that no status update
\* moved is cancelled_by_provider, a booking of p1 that was declined is still
\* declined, and a booking of p2 is still requested
C40_Witness ==
    /\ providers["p1"] = "cancelled"
    /\ \E i, j, k \in 1..Len(bookings) :
          /\ bookings[i].provider_id = "p1"
          /\ bookings[i].status = "cancelled_by_provider"
          /\ \A h \in 1..Len(booking_status_history) :
                booking_status_history[h].booking_id = i
                    => booking_status_history[h].to_status # "cancelled_by_provider"
          /\ bookings[j].provider_id = "p1"
          /\ bookings[j].status = "provider_declined"
          /\ bookings[k].provider_id = "p2"
          /\ bookings[k].status = "requested"
====
